---- MODULE Spec2Model ----
(***************************************************************************)
(* A model of src/bot.py: the topic message limiter.  The persisted tables *)
(* (message records, custom admins, cooldown overrides), the two process-  *)
(* local caches (admin_cache, recent_warnings), the chat platform's member *)
(* roles and the handlers, each cut at its await points, are the state.    *)
(*                                                                         *)
(* Time is an integer clock.  The settings given in seconds                *)
(* (ADMIN_CACHE_TTL, WARNING_DELETE_SECONDS) count clock ticks, and        *)
(* timedelta(hours=h) is h * TicksPerHour ticks.  The settings are read    *)
(* from the environment (bot.py lines 23-30); the values below are one     *)
(* small configuration.                                                    *)
(***************************************************************************)
EXTENDS Integers, Sequences, FiniteSets, TLC

\* ---------------------------------------------------------------- bounds
MaxTime == 4
TicksPerHour == 1
MaxPending == 2

\* --------------------------------------------------------- configuration
TOPIC_ID == 7
MESSAGE_COOLDOWN_HOURS == 2
WARNING_DELETE_SECONDS == 1
ADMIN_CACHE_TTL == 2
VARIABLE ALLOWED_GROUPS  \* the allow-list of chat ids, read once from the environment
GROUP_ANONYMOUS_BOT_ID == 1087968824

\* The chats, threads and accounts the platform delivers events from.
ChatA == -1001
ChatB == -1002
Chats == {ChatA, ChatB}
OtherThread == 8
Users == {1, 2, 3}
Accounts == Users \cup {GROUP_ANONYMOUS_BOT_ID}
None == -1
NoChat == 0

\* ------------------------------------------------------------- helpers
\* Python's str(int) on the integers the model uses.
Str(n) ==
    CASE n = 1 -> "1"
      [] n = 2 -> "2"
      [] n = 3 -> "3"
      [] n = GROUP_ANONYMOUS_BOT_ID -> "1087968824"
      [] n = ChatA -> "-1001"
      [] n = ChatB -> "-1002"
      [] OTHER -> "?"

\* A Python dict is a function on its set of keys.
EmptyDict == [k \in {} |-> 0]
DictGet(d, k, default) == IF k \in DOMAIN d THEN d[k] ELSE default
DictSet(d, k, v) == [x \in (DOMAIN d) \cup {k} |-> IF x = k THEN v ELSE d[x]]
DictDel(d, k) == [x \in (DOMAIN d) \ {k} |-> d[x]]

\* timedelta(hours=h), in clock ticks.
Hours(h) == h * TicksPerHour

\* is_allowed_group: an empty allow-list allows every chat.
AllowEveryGroup(chat_id) == TRUE
is_allowed_group(chat_id) ==
    IF ALLOWED_GROUPS = {} THEN TRUE ELSE chat_id \in ALLOWED_GROUPS

\* ------------------------------------------------------ cooldown evaluator
\* get_user_cooldown_hours(chat_id, user_id), on the loaded override table uc.
GetCooldownIgnoringOverride(uc, chat_id, user_id) == MESSAGE_COOLDOWN_HOURS
get_user_cooldown_hours(uc, chat_id, user_id) ==
    LET chat_cooldowns == DictGet(uc, Str(chat_id), EmptyDict)
    IN  DictGet(chat_cooldowns, Str(user_id), MESSAGE_COOLDOWN_HOURS)

\* clean_old_records(records, chat_id), at clock t with override table uc.
\* A chat_id of None (or 0) is falsy and selects no overrides.
CleanWithGlobalThreshold(recs, chat_id, uc, t) ==
    [k \in {x \in DOMAIN recs : t - recs[x] < Hours(MESSAGE_COOLDOWN_HOURS)}
        |-> recs[k]]
clean_old_records(recs, chat_id, uc, t) ==
    LET chat_cooldowns == IF chat_id # NoChat
                          THEN DictGet(uc, Str(chat_id), EmptyDict)
                          ELSE EmptyDict
        keep == {x \in DOMAIN recs :
                   t - recs[x] < Hours(DictGet(chat_cooldowns, x,
                                               MESSAGE_COOLDOWN_HOURS))}
    IN  [k \in keep |-> recs[k]]

\* can_user_send_message(user_id, records, chat_id): (can_send, time_remaining),
\* time_remaining None when the message is allowed.
can_user_send_message(user_id, recs, chat_id, uc, t) ==
    LET user_id_str == Str(user_id)
        cooldown_hours == IF chat_id # NoChat
                          THEN get_user_cooldown_hours(uc, chat_id, user_id)
                          ELSE MESSAGE_COOLDOWN_HOURS
    IN  IF user_id_str \notin DOMAIN recs
        THEN [ok |-> TRUE, remaining |-> None]
        ELSE IF cooldown_hours = 0
        THEN [ok |-> TRUE, remaining |-> None]
        ELSE LET time_since_last == t - recs[user_id_str]
             IN  IF time_since_last >= Hours(cooldown_hours)
                 THEN [ok |-> TRUE, remaining |-> None]
                 ELSE [ok |-> FALSE,
                       remaining |-> Hours(cooldown_hours) - time_since_last]

\* ---------------------------------------------------------- admin resolver
\* The platform's answer to get_chat_administrators for the member roles r.
AdminRoles == {"administrator", "creator"}
AdminsOf(r, chat_id) == {u \in DOMAIN r[chat_id] : r[chat_id][u] \in AdminRoles}

\* is_custom_admin(chat_id, user_id), on the loaded custom-admin table ca.
is_custom_admin(ca, chat_id, user_id) ==
    user_id \in DictGet(ca, Str(chat_id), {})

\* Whether the cache entry of chat_id answers at clock t (bot.py 217-219).
CacheFreshNever(cache, chat_id, t) == FALSE
CacheFreshAlways(cache, chat_id, t) == Str(chat_id) \in DOMAIN cache
cache_fresh(cache, chat_id, t) ==
    /\ Str(chat_id) \in DOMAIN cache
    /\ t - cache[Str(chat_id)].timestamp < ADMIN_CACHE_TTL

\* is_admin up to its await: the branch that decides, "live" when the
\* administrator list has to be fetched from the platform.
IsAdminCustomFirst(ca, cache, chat_id, user_id, sender_chat, t) ==
    IF is_custom_admin(ca, chat_id, user_id) THEN "custom"
    ELSE IF cache_fresh(cache, chat_id, t)
    THEN (IF user_id \in cache[Str(chat_id)].admin_ids
          THEN "cache_yes" ELSE "cache_no")
    ELSE "live"
is_admin_sync(ca, cache, chat_id, user_id, sender_chat, t) ==
    IF sender_chat # None /\ sender_chat = chat_id THEN "anon_chat"
    ELSE IF user_id = GROUP_ANONYMOUS_BOT_ID THEN "anon_id"
    ELSE IF is_custom_admin(ca, chat_id, user_id) THEN "custom"
    ELSE IF cache_fresh(cache, chat_id, t)
    THEN (IF user_id \in cache[Str(chat_id)].admin_ids
          THEN "cache_yes" ELSE "cache_no")
    ELSE "live"

ExemptPaths == {"anon_chat", "anon_id", "custom", "cache_yes"}

\* is_admin after its await: the fetched list decides, a failed fetch denies.
FetchAnswerNegated(ok, admin_ids, user_id) == ok /\ user_id \notin admin_ids
fetch_answer(ok, admin_ids, user_id) == ok /\ user_id \in admin_ids

\* The cache after the fetch of a check that read the clock at fnow.
CacheDroppedOnFailure(cache, ok, chat_id, admin_ids, fnow) ==
    IF ok
    THEN DictSet(cache, Str(chat_id),
                 [admin_ids |-> admin_ids, timestamp |-> fnow])
    ELSE DictDel(cache, Str(chat_id))
cache_after_fetch(cache, ok, chat_id, admin_ids, fnow) ==
    IF ok
    THEN DictSet(cache, Str(chat_id),
                 [admin_ids |-> admin_ids, timestamp |-> fnow])
    ELSE cache

\* is_group_admin_or_creator: the platform's role for the user, denied when
\* the query fails.
GroupAdminFailOpen(ok, r, chat_id, user_id) ==
    (~ok) \/ user_id \in AdminsOf(r, chat_id)
is_group_admin_or_creator(ok, r, chat_id, user_id) ==
    ok /\ user_id \in AdminsOf(r, chat_id)

\* ------------------------------------------------------- warning throttle
\* handle_message 305-313: a warning was sent to this user less than
\* WARNING_DELETE_SECONDS + 2 ago.
WarningNeverSuppressed(rw, chat_id, user_id, t) == FALSE
warning_suppressed(rw, chat_id, user_id, t) ==
    /\ <<chat_id, user_id>> \in DOMAIN rw
    /\ t - rw[<<chat_id, user_id>>] < WARNING_DELETE_SECONDS + 2

\* ------------------------------------------------------- the data files
\* message_records.json, custom_admins.json and user_cooldowns.json
\* (36-38), and what a file can be on disk: a JSON object (its content is
\* the table), JSON that is not an object ([] or null), absent, a
\* directory, a directory that cannot be removed (a mount point, a
\* symbolic link to a directory), not JSON or unreadable (truncated,
\* empty, no permission), or bytes that are not UTF-8.
Tables == {"records", "custom_admins", "user_cooldowns"}
FileKinds ==
    {"object", "nonobject", "absent", "dir", "mount", "invalid", "binary"}

\* How the operating system answers the calls of one load or save, each
\* of which can fail (no descriptor left, no permission, disk full): rm
\* is shutil.rmtree (56), create the makedirs and open of a missing file
\* (43, 60), init the write of its {} (61), open the open of the load or
\* save itself (68, 77), including a load's read, and dump the write of
\* the saved value (78).  TRUE is success.
Faults ==
    [rm : BOOLEAN, create : BOOLEAN, init : BOOLEAN, open : BOOLEAN,
     dump : BOOLEAN]

\* ensure_data_file (47-62), outside every try block: shutil.rmtree
\* removes a directory, or raises and the directory remains (always on
\* one that cannot be removed); a file that does not exist (any more) is
\* created, or open raises and nothing is created; {} is written to it,
\* or the write raises and the file stays empty; any other file is left
\* as it is.  The kind of the file afterwards, and whether the call
\* raised.
ensure_data_file(kind, f) ==
    CASE kind = "mount" -> [kind |-> "mount", raised |-> TRUE]
      [] kind = "dir" /\ ~f.rm -> [kind |-> "dir", raised |-> TRUE]
      [] kind \in {"absent", "dir"} ->
             IF ~f.create THEN [kind |-> "absent", raised |-> TRUE]
             ELSE IF ~f.init THEN [kind |-> "invalid", raised |-> TRUE]
             ELSE [kind |-> "object", raised |-> FALSE]
      [] OTHER -> [kind |-> kind, raised |-> FALSE]

\* load_records / load_custom_admins / load_user_cooldowns (64-72, 80-88,
\* 96-104) on a file of this kind, ensure_data_file done: open or the
\* read raises an IOError, or json.load returns what the file holds, a
\* mapping or not, or raises JSONDecodeError, and {} is returned; the
\* UnicodeDecodeError of a file that is not UTF-8 is neither and leaves
\* the function.
load_outcome(kind, f) ==
    CASE ~f.open -> "empty"
      [] kind = "object" -> "loaded"
      [] kind = "nonobject" -> "nonmapping"
      [] kind = "invalid" -> "empty"
      [] kind = "binary" -> "raised"

\* ------------------------------------------------------------------ state
VARIABLES
    now,              \* datetime.now()
    records,          \* message_records.json: str(user_id) -> time of last admitted message
    custom_admins,    \* custom_admins.json: str(chat_id) -> user ids
    user_cooldowns,   \* user_cooldowns.json: str(chat_id) -> str(user_id) -> hours
    admin_cache,      \* str(chat_id) -> [admin_ids, timestamp]
    recent_warnings,  \* (chat_id, user_id) -> time of the last warning
    role,             \* the platform: chat_id -> user_id -> member status
    h,                \* the handler coroutines, each at an await or idle
    tasks,            \* the scheduled delete_message_later tasks
    disk,             \* what each data file is: a JSON object, absent, ...
    evt,              \* what the last step did
    hist              \* history: what has been admitted, looked up, warned

vars == <<ALLOWED_GROUPS, disk, now, records, custom_admins, user_cooldowns, admin_cache,
          recent_warnings, role, h, tasks, evt, hist>>

Slots == {1, 2}
Idle == [pc |-> "idle"]

\* evt: the handler or step (op), its chat and user, the branch taken
\* (path), the outcome (out) and, for an evaluated message, whether the
\* sender had a record when the records were loaded (had); for a command,
\* its arguments (args), the record keys its reply lists (shown) and
\* whether an exception left the handler (exc); for an evaluated message
\* again, whether a reset removed the sender's record and no message of
\* the sender was evaluated in between (since), and whether another
\* message of the sender was admitted while this one waited for the admin
\* lookup, with no reset and no override change since (late).
Event(op, c, u, path, out) ==
    [op |-> op, chat |-> c, user |-> u, path |-> path, out |-> out,
     had |-> FALSE, args |-> <<>>, shown |-> {}, exc |-> FALSE,
     since |-> FALSE, late |-> FALSE]

\* The event of a command handler that ran on the arguments args.
CmdEvent(op, c, u, path, out, args) ==
    [Event(op, c, u, path, out) EXCEPT !.args = args]

\* The process has started: the data files are empty, the caches are empty,
\* no handler runs.
Started ==
    /\ now = 0
    /\ disk = [t \in Tables |-> "object"]
    /\ records = EmptyDict
    /\ custom_admins = EmptyDict
    /\ user_cooldowns = EmptyDict
    /\ admin_cache = EmptyDict
    /\ recent_warnings = EmptyDict
    /\ role = [c \in Chats |-> [u \in Users |->
                 IF u = 3 THEN "creator" ELSE "member"]]
    /\ h = [s \in Slots |-> Idle]
    /\ tasks = {}
    /\ evt = Event("init", NoChat, None, "none", "none")
    /\ hist = [admit  |-> [c \in Chats |-> [u \in Accounts |-> None]],
               lookup |-> [c \in Chats |-> None],
               fill   |-> [c \in Chats |-> None],
               asadmin |-> [s \in Slots |-> FALSE],
               warn   |-> EmptyDict,
               boot   |-> None,
               reset  |-> {},
               overtaken |-> {}]

\* The default configuration: no allow-list.
Init == ALLOWED_GROUPS = {} /\ Started

\* A configuration with or without an allow-list.
InitFilter == ALLOWED_GROUPS \in {{}, {ChatA}} /\ Started

\* The users whose key in the tables is k.
UsersOfKey(k) == {u \in Accounts : Str(u) = k}

\* hist.reset once a message of the user of key k was evaluated: the reset
\* of k, if there was one, is no longer pending.
Evaluated(rs, k) == rs \ {k}

\* hist.overtaken once the user of key k was reset or had an override
\* changed: the handlers in flight for that user start afresh.
Settled(ov, k) == {r \in ov : Str(h[r].user) # k}

\* The handlers other than s that wait for the admin lookup of a message
\* of user u in chat c.
InFlightFor(s, c, u) ==
    {r \in Slots \ {s} :
        /\ h[r].pc = "fetch" /\ h[r].kind = "message"
        /\ h[r].chat = c /\ h[r].user = u}

\* hist.admit once the user of key k was reset or had an override changed.
Forget(adm, k) ==
    [c \in Chats |-> [u \in Accounts |->
        IF u \in UsersOfKey(k) THEN None ELSE adm[c][u]]]

\* int(s) of a command argument: the strings the model sends, ValueError
\* for the others.
IsInt(s) == s \in {"0", "1", "2", "3", "4", "-1"}
IntOf(s) ==
    CASE s = "0" -> 0
      [] s = "1" -> 1
      [] s = "2" -> 2
      [] s = "3" -> 3
      [] s = "4" -> 4
      [] s = "-1" -> -1

\* The commands, each ending in a reply_text to the invoker.
CommandOps ==
    {"status", "check_duplicates", "reset", "addadmin", "removeadmin",
     "listadmins", "setcooldown", "resetcooldown", "listcooldowns", "help"}

\* Whether the reply_text of a command that took the branch e is awaited
\* inside the command's try block (421-435, 452-474, 491-511, 559-592,
\* 608-629): the replies after the arguments were read, but not the one
\* of the except ValueError branch.  The denial, the usage message and
\* the listings are sent outside any try block.
reply_in_try(e) ==
    /\ e.op \in {"reset", "addadmin", "removeadmin", "setcooldown",
                 "resetcooldown"}
    /\ \/ e.out \in {"done", "noop"}
       \/ e.op = "setcooldown" /\ e.out = "error" /\ IsInt(e.args[2])

\* A handler leaves the tables as given and goes on to its last await: a
\* command calls message.reply_text and waits for the answer;
\* handle_message replies to nobody and returns, its slot idle again.
Finish(s, recs, ca, uc, e, hi) ==
    /\ records' = recs
    /\ custom_admins' = ca
    /\ user_cooldowns' = uc
    /\ evt' = e
    /\ hist' = hi
    /\ h' = [h EXCEPT ![s] =
                IF e.op \in CommandOps
                THEN [pc |-> "reply", kind |-> e.op, chat |-> e.chat,
                      user |-> e.user, out |-> e.out,
                      try |-> reply_in_try(e)]
                ELSE Idle]
    /\ UNCHANGED <<recent_warnings, tasks>>

\* ------------------------------------------------------ handle_message
\* The record table handle_message saves for an admitted message (343-344).
AdmissionNotSaved(recs, user_id, t) == recs
admitted_records(recs, user_id, t) == DictSet(recs, Str(user_id), t)

\* The record table on disk after a rejection (296-340): the cleaned view
\* is dropped with the handler, nothing is saved.
PrunedViewSaved(on_disk, cleaned) == cleaned
rejected_records(on_disk, cleaned) == on_disk

\* handle_message from the admin check's answer on (285-346), up to its
\* next await: an exempt sender is skipped; otherwise the records are
\* loaded and cleaned and the message is admitted (recorded and saved) or
\* rejected (message.delete() is called and awaited).
AfterAdminCheckMessage(s, c, u, exempt, path, hist0) ==
    IF exempt
    THEN Finish(s, records, custom_admins, user_cooldowns,
                Event("message", c, u, path, "exempt"),
                [hist0 EXCEPT !.overtaken = @ \ {s}])
    ELSE LET recs == clean_old_records(records, c, user_cooldowns, now)
             d == can_user_send_message(u, recs, c, user_cooldowns, now)
         IN  IF d.ok
             THEN Finish(s, admitted_records(recs, u, now), custom_admins,
                         user_cooldowns,
                         [Event("message", c, u, path, "admit")
                             EXCEPT !.had = Str(u) \in DOMAIN records,
                                    !.since = Str(u) \in hist0.reset,
                                    !.late = s \in hist0.overtaken],
                         [hist0 EXCEPT !.admit[c][u] = now,
                                       !.reset = Evaluated(@, Str(u)),
                                       !.overtaken =
                                           (@ \ {s}) \cup InFlightFor(s, c, u)])
             ELSE /\ h' = [h EXCEPT ![s] = [pc |-> "delete", chat |-> c,
                                            user |-> u,
                                            rem |-> d.remaining]]
                  /\ evt' = [Event("message", c, u, path, "reject")
                                EXCEPT !.had = Str(u) \in DOMAIN records,
                                       !.since = Str(u) \in hist0.reset,
                                       !.late = s \in hist0.overtaken]
                  /\ hist' = [hist0 EXCEPT !.reset = Evaluated(@, Str(u)),
                                           !.overtaken = @ \ {s}]
                  /\ records' = rejected_records(records, recs)
                  /\ UNCHANGED <<custom_admins, user_cooldowns,
                                 recent_warnings, tasks>>

\* ------------------------------------------------------------- commands
\* reset_command after its gate (418-435).
ResetNotSaved(s, c, u, args, path, hist0) ==
    IF args = <<>>
    THEN Finish(s, records, custom_admins, user_cooldowns,
                CmdEvent("reset", c, u, path, "usage", args), hist0)
    ELSE LET target_user_id == args[1]
         IN  IF target_user_id \in DOMAIN records
             THEN Finish(s, records, custom_admins, user_cooldowns,
                         CmdEvent("reset", c, u, path, "done", args),
                         [hist0 EXCEPT
                             !.admit = Forget(@, target_user_id),
                             !.overtaken = Settled(@, target_user_id),
                             !.reset = @ \cup {target_user_id}])
             ELSE Finish(s, records, custom_admins, user_cooldowns,
                         CmdEvent("reset", c, u, path, "noop", args), hist0)
ResetBody(s, c, u, args, path, hist0) ==
    IF args = <<>>
    THEN Finish(s, records, custom_admins, user_cooldowns,
                CmdEvent("reset", c, u, path, "usage", args), hist0)
    ELSE LET target_user_id == args[1]
         IN  IF target_user_id \in DOMAIN records
             THEN Finish(s, DictDel(records, target_user_id), custom_admins,
                         user_cooldowns,
                         CmdEvent("reset", c, u, path, "done", args),
                         [hist0 EXCEPT
                             !.admit = Forget(@, target_user_id),
                             !.overtaken = Settled(@, target_user_id),
                             !.reset = @ \cup {target_user_id}])
             ELSE Finish(s, records, custom_admins, user_cooldowns,
                         CmdEvent("reset", c, u, path, "noop", args), hist0)

\* setcooldown_command's range check of the hours (563).
HoursNeverRejected(cooldown_hours) == FALSE
hours_rejected(cooldown_hours) == cooldown_hours < 0

\* setcooldown_command after its gate (549-592).
SetCooldownBody(s, c, u, args, path, hist0) ==
    IF Len(args) < 2
    THEN Finish(s, records, custom_admins, user_cooldowns,
                CmdEvent("setcooldown", c, u, path, "usage", args), hist0)
    ELSE IF ~IsInt(args[2]) \/ hours_rejected(IntOf(args[2]))
    THEN Finish(s, records, custom_admins, user_cooldowns,
                CmdEvent("setcooldown", c, u, path, "error", args), hist0)
    ELSE LET target_user_id == args[1]
             cooldown_hours == IntOf(args[2])
             chat_id == Str(c)
             chat_cooldowns == DictGet(user_cooldowns, chat_id, EmptyDict)
         IN  Finish(s, records, custom_admins,
                    DictSet(user_cooldowns, chat_id,
                            DictSet(chat_cooldowns, target_user_id,
                                    cooldown_hours)),
                    CmdEvent("setcooldown", c, u, path, "done", args),
                    [hist0 EXCEPT !.admit = Forget(@, target_user_id),
                             !.overtaken = Settled(@, target_user_id),
                                  !.overtaken = Settled(@, target_user_id)])

\* resetcooldown_command after its gate (605-629).
ResetCooldownBody(s, c, u, args, path, hist0) ==
    IF args = <<>>
    THEN Finish(s, records, custom_admins, user_cooldowns,
                CmdEvent("resetcooldown", c, u, path, "usage", args), hist0)
    ELSE LET target_user_id == args[1]
             chat_id == Str(c)
         IN  IF /\ chat_id \in DOMAIN user_cooldowns
                /\ target_user_id \in DOMAIN user_cooldowns[chat_id]
             THEN Finish(s, records, custom_admins,
                         DictSet(user_cooldowns, chat_id,
                                 DictDel(user_cooldowns[chat_id],
                                         target_user_id)),
                         CmdEvent("resetcooldown", c, u, path, "done", args),
                         [hist0 EXCEPT !.admit = Forget(@, target_user_id),
                             !.overtaken = Settled(@, target_user_id),
                                       !.overtaken = Settled(@, target_user_id)])
             ELSE Finish(s, records, custom_admins, user_cooldowns,
                         CmdEvent("resetcooldown", c, u, path, "noop", args),
                         hist0)

\* addadmin_command after its gate (449-474).
AddAdminBody(s, c, u, args, path, hist0) ==
    IF args = <<>>
    THEN Finish(s, records, custom_admins, user_cooldowns,
                CmdEvent("addadmin", c, u, path, "usage", args), hist0)
    ELSE IF ~IsInt(args[1])
    THEN Finish(s, records, custom_admins, user_cooldowns,
                CmdEvent("addadmin", c, u, path, "error", args), hist0)
    ELSE LET target_user_id == IntOf(args[1])
             chat_id == Str(c)
             chat_admins == DictGet(custom_admins, chat_id, {})
         IN  IF target_user_id \in chat_admins
             THEN Finish(s, records, custom_admins, user_cooldowns,
                         CmdEvent("addadmin", c, u, path, "noop", args), hist0)
             ELSE Finish(s, records,
                         DictSet(custom_admins, chat_id,
                                 chat_admins \cup {target_user_id}),
                         user_cooldowns,
                         CmdEvent("addadmin", c, u, path, "done", args), hist0)

\* removeadmin_command after its gate (488-511).
RemoveAdminBody(s, c, u, args, path, hist0) ==
    IF args = <<>>
    THEN Finish(s, records, custom_admins, user_cooldowns,
                CmdEvent("removeadmin", c, u, path, "usage", args), hist0)
    ELSE IF ~IsInt(args[1])
    THEN Finish(s, records, custom_admins, user_cooldowns,
                CmdEvent("removeadmin", c, u, path, "error", args), hist0)
    ELSE LET target_user_id == IntOf(args[1])
             chat_id == Str(c)
         IN  IF \/ chat_id \notin DOMAIN custom_admins
                \/ target_user_id \notin custom_admins[chat_id]
             THEN Finish(s, records, custom_admins, user_cooldowns,
                         CmdEvent("removeadmin", c, u, path, "noop", args), hist0)
             ELSE Finish(s, records,
                         DictSet(custom_admins, chat_id,
                                 custom_admins[chat_id] \ {target_user_id}),
                         user_cooldowns,
                         CmdEvent("removeadmin", c, u, path, "done", args), hist0)

\* datetime.date() of a time: the process starts at StartHour o'clock.
StartHour == 22
DayOf(t) == (t + Hours(StartHour)) \div Hours(24)

\* check_duplicate_users_today(records) (155-169): walking records.items(),
\* the keys of today's records that were met before; items() yields each
\* key of the dict once.
UsersRecordedToday(recs, t) ==
    {k \in DOMAIN recs : DayOf(recs[k]) = DayOf(t)}
check_duplicate_users_today(recs, t) ==
    {k \in DOMAIN recs :
        /\ DayOf(recs[k]) = DayOf(t)
        /\ Cardinality({j \in DOMAIN recs :
                           j = k /\ DayOf(recs[j]) = DayOf(t)}) > 1}

\* status_command after its gate (360-378): the records left by
\* clean_old_records(records), called without a chat_id, are listed; the
\* cleaned table is not saved.
status_records(recs, uc, t) == clean_old_records(recs, NoChat, uc, t)

\* The commands that only read (348-403, 513-536, 631-708), after their
\* gate: what the reply lists.
ListingBody(s, kind, c, u, args, path, hist0) ==
    LET listed ==
            CASE kind = "status" ->
                     DOMAIN status_records(records, user_cooldowns, now)
              [] kind = "check_duplicates" ->
                     check_duplicate_users_today(records, now)
              [] kind = "listadmins" ->
                     DictGet(custom_admins, Str(c), {})
              [] kind = "listcooldowns" ->
                     DOMAIN DictGet(user_cooldowns, Str(c), EmptyDict)
              [] kind = "help" -> {}
        out == IF kind = "help" THEN "help"
               ELSE IF listed = {} THEN "empty" ELSE "listed"
    IN  Finish(s, records, custom_admins, user_cooldowns,
               [CmdEvent(kind, c, u, path, out, args)
                   EXCEPT !.shown = listed], hist0)

\* The commands gated by is_admin, and those gated by the platform's role.
Listings ==
    {"status", "check_duplicates", "listadmins", "listcooldowns", "help"}
AdminGated == {"reset", "setcooldown", "resetcooldown"} \cup Listings
RoleGated == {"addadmin", "removeadmin"}

\* A command handler from its gate's answer on: a denial, or the body.
AfterGate(s, kind, c, u, args, allowed, path, hist0) ==
    IF ~allowed
    THEN Finish(s, records, custom_admins, user_cooldowns,
                CmdEvent(kind, c, u, path, "denied", args), hist0)
    ELSE CASE kind = "reset" -> ResetBody(s, c, u, args, path, hist0)
           [] kind = "setcooldown" -> SetCooldownBody(s, c, u, args, path, hist0)
           [] kind = "resetcooldown" -> ResetCooldownBody(s, c, u, args, path, hist0)
           [] kind = "addadmin" -> AddAdminBody(s, c, u, args, path, hist0)
           [] kind = "removeadmin" -> RemoveAdminBody(s, c, u, args, path, hist0)
           [] kind \in Listings -> ListingBody(s, kind, c, u, args, path, hist0)

\* Any handler once is_admin has answered.
AfterIsAdmin(s, kind, c, u, args, exempt, path, hist0) ==
    IF kind = "message"
    THEN AfterAdminCheckMessage(s, c, u, exempt, path, hist0)
    ELSE AfterGate(s, kind, c, u, args, exempt, path, hist0)

\* ---------------------------------------------------------------- steps
\* is_admin(bot, chat_id, user_id, sender_chat), called by handler `kind`:
\* answered at once, or suspended in get_chat_administrators (224) with
\* the clock it read at 215.
IsAdminCall(s, kind, c, u, args, sc) ==
    LET path == is_admin_sync(custom_admins, admin_cache, c, u, sc, now)
    IN  IF path = "live"
        THEN /\ h' = [h EXCEPT ![s] = [pc |-> "fetch", kind |-> kind,
                                       chat |-> c, user |-> u,
                                       args |-> args, fnow |-> now]]
             /\ evt' = CmdEvent(kind, c, u, "live", "lookup", args)
             /\ hist' = [hist EXCEPT !.lookup[c] = now,
                                     !.asadmin[s] = u \in AdminsOf(role, c)]
             /\ UNCHANGED <<records, custom_admins, user_cooldowns,
                            admin_cache, recent_warnings, tasks>>
        ELSE /\ admin_cache' = admin_cache
             /\ AfterIsAdmin(s, kind, c, u, args, path \in ExemptPaths,
                             path, hist)

\* The first idle handler slot takes the next event.
FreeSlot(s) == h[s].pc = "idle" /\ \A r \in Slots : r < s => h[r].pc # "idle"

\* handle_message starts (254-285): the chat and thread filters, then the
\* admin check.
MsgArrive(s, c, th, u, sc) ==
    /\ FreeSlot(s)
    /\ UNCHANGED <<ALLOWED_GROUPS, disk, now, role>>
    /\ IF ~is_allowed_group(c) \/ th # TOPIC_ID
       THEN /\ evt' = Event("message", c, u,
                            IF is_allowed_group(c) THEN "thread" ELSE "chat",
                            "ignored")
            /\ UNCHANGED <<records, custom_admins, user_cooldowns,
                           admin_cache, recent_warnings, h, tasks, hist>>
       ELSE IsAdminCall(s, "message", c, u, <<>>, sc)

\* A command handler starts: the chat filter, then its gate.  Commands
\* pass no sender_chat to is_admin.
CmdArrive(s, kind, c, u, args) ==
    /\ FreeSlot(s)
    /\ UNCHANGED <<ALLOWED_GROUPS, disk, now, role>>
    /\ IF ~is_allowed_group(c)
       THEN /\ evt' = CmdEvent(kind, c, u, "chat", "ignored", args)
            /\ UNCHANGED <<records, custom_admins, user_cooldowns,
                           admin_cache, recent_warnings, h, tasks, hist>>
       ELSE IF kind \in RoleGated
       THEN /\ h' = [h EXCEPT ![s] = [pc |-> "member", kind |-> kind,
                                      chat |-> c, user |-> u,
                                      args |-> args]]
            /\ evt' = CmdEvent(kind, c, u, "member", "query", args)
            /\ UNCHANGED <<records, custom_admins, user_cooldowns,
                           admin_cache, recent_warnings, tasks, hist>>
       ELSE IsAdminCall(s, kind, c, u, args, None)

\* get_chat_administrators returns or raises (223-236); the handler goes on.
FetchReturn(s, ok) ==
    /\ h[s].pc = "fetch"
    /\ UNCHANGED <<ALLOWED_GROUPS, disk, now, role>>
    /\ LET c == h[s].chat
           u == h[s].user
           admin_ids == AdminsOf(role, c)
       IN  /\ admin_cache' = cache_after_fetch(admin_cache, ok, c, admin_ids,
                                               h[s].fnow)
           /\ AfterIsAdmin(s, h[s].kind, c, u, h[s].args,
                           fetch_answer(ok, admin_ids, u),
                           IF ok THEN "fetched" ELSE "failed",
                           IF ok THEN [hist EXCEPT !.fill[c] = h[s].fnow,
                                                   !.asadmin[s] = FALSE]
                                 ELSE [hist EXCEPT !.asadmin[s] = FALSE])

\* get_chat_member returns or raises (240-245); addadmin / removeadmin go on.
MemberReturn(s, ok) ==
    /\ h[s].pc = "member"
    /\ UNCHANGED <<ALLOWED_GROUPS, disk, now, role, admin_cache>>
    /\ AfterGate(s, h[s].kind, h[s].chat, h[s].user, h[s].args,
                 is_group_admin_or_creator(ok, role, h[s].chat, h[s].user),
                 IF ok THEN "member" ELSE "failed", hist)

\* message.reply_text returns or raises.  The handler ends when it
\* returned.  When it raised inside the try block, the except Exception
\* branch (434, 473, 510, 591, 628) awaits a second reply_text, of the
\* error; when it raised elsewhere, the exception leaves the handler.  The
\* event tells which branch's reply it was (path).
ReplyReturn(s, ok) ==
    /\ h[s].pc = "reply"
    /\ UNCHANGED <<ALLOWED_GROUPS, disk, now, role, records, custom_admins,
                   user_cooldowns, admin_cache, recent_warnings, tasks, hist>>
    /\ IF ~ok /\ h[s].try
       THEN /\ h' = [h EXCEPT ![s].try = FALSE]
            /\ evt' = Event("reply", h[s].chat, h[s].user, h[s].out, "again")
       ELSE /\ h' = [h EXCEPT ![s] = Idle]
            /\ evt' = [Event("reply", h[s].chat, h[s].user, h[s].out,
                             IF ok THEN "replied" ELSE "raised")
                          EXCEPT !.exc = ~ok]

\* handle_message after its delete attempt (304-327): the warning throttle,
\* then the call of send_message; ok tells how the delete ended.
WarnOrSkip(s, ok) ==
    LET c == h[s].chat
        u == h[s].user
    IN  IF warning_suppressed(recent_warnings, c, u, now)
        THEN /\ h' = [h EXCEPT ![s] = Idle]
             /\ evt' = Event("throttle", c, u,
                             IF ok THEN "deleted" ELSE "failed",
                             "suppressed")
             /\ UNCHANGED <<recent_warnings, hist>>
        ELSE /\ recent_warnings' = DictSet(recent_warnings, <<c, u>>, now)
             /\ h' = [h EXCEPT ![s] = [pc |-> "send", chat |-> c,
                                       user |-> u, rem |-> h[s].rem]]
             /\ evt' = Event("throttle", c, u,
                             IF ok THEN "deleted" ELSE "failed", "warn")
             /\ hist' = [hist EXCEPT !.warn = DictSet(@, <<c, u>>, now)]

\* message.delete() returns or raises (298-302); the error is logged and
\* the handler goes on either way.
DeleteFailureAborts(s, ok) ==
    /\ h[s].pc = "delete"
    /\ UNCHANGED <<ALLOWED_GROUPS, disk, now, role, records, custom_admins,
                   user_cooldowns, admin_cache, tasks>>
    /\ IF ok
       THEN WarnOrSkip(s, ok)
       ELSE /\ h' = [h EXCEPT ![s] = Idle]
            /\ evt' = Event("throttle", h[s].chat, h[s].user, "failed",
                            "aborted")
            /\ UNCHANGED <<recent_warnings, hist>>
DeleteReturn(s, ok) ==
    /\ h[s].pc = "delete"
    /\ UNCHANGED <<ALLOWED_GROUPS, disk, now, role, records, custom_admins,
                   user_cooldowns, admin_cache, tasks>>
    /\ WarnOrSkip(s, ok)

\* send_message returns or raises (327-338); a sent warning gets its
\* delete_message_later task.  Two warnings are two messages: msg stands
\* for warning.message_id, a number no pending task holds.
MessageId(ts) ==
    CHOOSE n \in 1..(Cardinality(ts) + 1) : \A t \in ts : t.msg # n
SendWithoutTask(s, ok) ==
    /\ h[s].pc = "send"
    /\ UNCHANGED <<ALLOWED_GROUPS, disk, now, role, records, custom_admins,
                   user_cooldowns, admin_cache, recent_warnings, hist, tasks>>
    /\ h' = [h EXCEPT ![s] = Idle]
    /\ evt' = Event("send", h[s].chat, h[s].user,
                    IF ok THEN "sent" ELSE "failed", "none")
SendReturn(s, ok) ==
    /\ h[s].pc = "send"
    /\ UNCHANGED <<ALLOWED_GROUPS, disk, now, role, records, custom_admins,
                   user_cooldowns, admin_cache, recent_warnings, hist>>
    /\ h' = [h EXCEPT ![s] = Idle]
    /\ tasks' = IF ok
                THEN tasks \cup {[chat |-> h[s].chat, user |-> h[s].user,
                                  msg |-> MessageId(tasks),
                                  due |-> now + WARNING_DELETE_SECONDS,
                                  pc |-> "sleep"]}
                ELSE tasks
    /\ evt' = Event("send", h[s].chat, h[s].user,
                    IF ok THEN "sent" ELSE "failed", "none")

\* delete_message_later (177-183) is cut at its two awaits.  Its sleep is
\* over, not before the delay has passed: the task calls
\* bot.delete_message and waits for the answer.
TaskWake(t) ==
    /\ t \in tasks
    /\ t.pc = "sleep"
    /\ now >= t.due
    /\ tasks' = (tasks \ {t}) \cup {[t EXCEPT !.pc = "delete"]}
    /\ evt' = Event("wake", t.chat, t.user, "none", "none")
    /\ UNCHANGED <<ALLOWED_GROUPS, disk, now, role, records, custom_admins,
                   user_cooldowns, admin_cache, recent_warnings, h, hist>>

\* bot.delete_message returns or raises (180-183); a failure is logged and
\* the task ends either way.
TaskReturn(t, ok) ==
    /\ t \in tasks
    /\ t.pc = "delete"
    /\ tasks' = tasks \ {t}
    /\ evt' = Event("task", t.chat, t.user,
                    IF ok THEN "deleted" ELSE "failed", "none")
    /\ UNCHANGED <<ALLOWED_GROUPS, disk, now, role, records, custom_admins,
                   user_cooldowns, admin_cache, recent_warnings, h, hist>>

\* The clock advances.
Tick ==
    /\ now < MaxTime
    /\ now' = now + 1
    /\ evt' = Event("tick", NoChat, None, "none", "none")
    /\ UNCHANGED <<ALLOWED_GROUPS, disk, role, records, custom_admins,
                   user_cooldowns, admin_cache, recent_warnings, h, tasks, hist>>

\* The process stops and main() runs again (710-751): the module's
\* dictionaries are created empty (171-175), the handlers and the tasks
\* of the old process are gone, and the data files, which exist, are left
\* as they are by ensure_data_file (47-62).
RestartFromEmptyFiles ==
    /\ admin_cache' = EmptyDict
    /\ recent_warnings' = EmptyDict
    /\ h' = [s \in Slots |-> Idle]
    /\ tasks' = {}
    /\ records' = EmptyDict
    /\ custom_admins' = EmptyDict
    /\ user_cooldowns' = EmptyDict
    /\ evt' = Event("restart", NoChat, None, "none", "none")
    /\ hist' = [hist EXCEPT !.asadmin = [s \in Slots |-> FALSE],
                            !.overtaken = {},
                            !.boot = now]
    /\ UNCHANGED <<ALLOWED_GROUPS, disk, now, role>>
Restart ==
    /\ admin_cache' = EmptyDict
    /\ recent_warnings' = EmptyDict
    /\ h' = [s \in Slots |-> Idle]
    /\ tasks' = {}
    /\ evt' = Event("restart", NoChat, None, "none", "none")
    /\ hist' = [hist EXCEPT !.asadmin = [s \in Slots |-> FALSE],
                            !.overtaken = {},
                            !.boot = now]
    /\ UNCHANGED <<ALLOWED_GROUPS, disk, now, role, records, custom_admins,
                   user_cooldowns>>

\* No handler is in flight.
Quiet == \A s \in Slots : h[s].pc = "idle"

\* No deletion task is due or waits for the platform.  The scenarios that
\* are not about the deletion tasks let the clock move only then: the
\* tasks touch nothing a handler reads.
Prompt == \A t \in tasks : t.pc = "sleep" /\ t.due > now

\* The platform promotes or demotes a member.
RoleChange(c, u, r) ==
    /\ role[c][u] # r
    /\ role' = [role EXCEPT ![c][u] = r]
    /\ evt' = Event("role", c, u, "none", "none")
    /\ UNCHANGED <<ALLOWED_GROUPS, disk, now, records, custom_admins,
                   user_cooldowns, admin_cache, recent_warnings, h, tasks, hist>>

\* ------------------------------------------------------ the store alone
\* The content of table t, and the three tables with t holding v.
TableOf(t) ==
    CASE t = "records" -> records
      [] t = "custom_admins" -> custom_admins
      [] t = "user_cooldowns" -> user_cooldowns
TablesWith(t, v) ==
    /\ records' = IF t = "records" THEN v ELSE records
    /\ custom_admins' = IF t = "custom_admins" THEN v ELSE custom_admins
    /\ user_cooldowns' = IF t = "user_cooldowns" THEN v ELSE user_cooldowns

\* Something outside the process damages the file of table t: its content
\* is lost.
Damage(t, kind) ==
    /\ kind # "object"
    /\ disk[t] # kind
    /\ disk' = [disk EXCEPT ![t] = kind]
    /\ TablesWith(t, EmptyDict)
    /\ evt' = Event("damage", NoChat, None, t, kind)
    /\ UNCHANGED <<ALLOWED_GROUPS, now, admin_cache, recent_warnings, role,
                   h, tasks, hist>>

\* load_records(), load_custom_admins() or load_user_cooldowns() is called
\* (64-72, 80-88, 96-104), the operating system answering as f says.  The
\* event tells what was returned (shown: the keys of the mapping) or that
\* the call raised.
LoadTable(t, f) ==
    LET e == ensure_data_file(disk[t], f)
        out == IF e.raised THEN "raised" ELSE load_outcome(e.kind, f)
    IN  /\ disk' = [disk EXCEPT ![t] = e.kind]
        /\ evt' = [Event("load", NoChat, None, t, out)
                      EXCEPT !.shown = IF out = "loaded"
                                       THEN DOMAIN TableOf(t) ELSE {},
                             !.exc = (out = "raised")]
        /\ UNCHANGED <<ALLOWED_GROUPS, now, records, custom_admins,
                       user_cooldowns, admin_cache, recent_warnings, role,
                       h, tasks, hist>>

\* save_records(v), save_custom_admins(v) or save_user_cooldowns(v) is
\* called (74-78, 90-94, 106-110), no try block in it: ensure_data_file
\* raises, or open(file, 'w') raises and the file is as ensure_data_file
\* left it, or open empties the file and json.dump writes it or raises;
\* an exception leaves the function.
SaveTable(t, v, f) ==
    LET e == ensure_data_file(disk[t], f)
        kept == e.raised \/ ~f.open
    IN  /\ disk' = [disk EXCEPT ![t] = IF kept THEN e.kind
                                       ELSE IF f.dump THEN "object"
                                       ELSE "invalid"]
        /\ TablesWith(t, IF kept THEN TableOf(t)
                         ELSE IF f.dump THEN v ELSE EmptyDict)
        /\ evt' = [Event("save", NoChat, None, t,
                         IF kept \/ ~f.dump THEN "raised" ELSE "saved")
                      EXCEPT !.exc = kept \/ ~f.dump]
        /\ UNCHANGED <<ALLOWED_GROUPS, now, admin_cache, recent_warnings,
                       role, h, tasks, hist>>

\* ---------------------------------------------------------- the events
\* Events are drawn from small sets: messages from the senders Snd (a user
\* id, and whether the post was made as the chat itself), commands Cmds
\* (kind, arguments) from the invokers Inv.
Messages(S, C, Th, Snd) ==
    \E s \in S, c \in C, th \in Th, snd \in Snd :
        MsgArrive(s, c, th, snd[1], IF snd[2] THEN c ELSE None)

Commands(S, C, Inv, Cmds) ==
    \E s \in S, c \in C, u \in Inv, cmd \in Cmds :
        CmdArrive(s, cmd[1], c, u, cmd[2])

Threads == {TOPIC_ID, OtherThread}
AllSenders ==
    {<<u, FALSE>> : u \in Users}
        \cup {<<GROUP_ANONYMOUS_BOT_ID, TRUE>>,
              <<GROUP_ANONYMOUS_BOT_ID, FALSE>>, <<2, TRUE>>}
AllCommands ==
    {<<"reset", <<>>>>, <<"reset", <<"1">>>>,
     <<"setcooldown", <<"1">>>>, <<"setcooldown", <<"1", "0">>>>,
     <<"setcooldown", <<"1", "4">>>>, <<"setcooldown", <<"1", "-1">>>>,
     <<"setcooldown", <<"1", "abc">>>>,
     <<"resetcooldown", <<>>>>, <<"resetcooldown", <<"1">>>>,
     <<"addadmin", <<>>>>, <<"addadmin", <<"2">>>>, <<"addadmin", <<"abc">>>>,
     <<"removeadmin", <<>>>>, <<"removeadmin", <<"2">>>>,
     <<"removeadmin", <<"abc">>>>}

\* The whole system: every event, two handlers in flight.
Next ==
    \/ Messages(Slots, Chats, Threads, AllSenders)
    \/ Commands(Slots, Chats, {2, 3, GROUP_ANONYMOUS_BOT_ID}, AllCommands)
    \/ \E s \in Slots, ok \in BOOLEAN : FetchReturn(s, ok)
    \/ \E s \in Slots, ok \in BOOLEAN : MemberReturn(s, ok)
    \/ \E s \in Slots, ok \in BOOLEAN : ReplyReturn(s, ok)
    \/ \E s \in Slots, ok \in BOOLEAN : DeleteReturn(s, ok)
    \/ \E s \in Slots, ok \in BOOLEAN : SendReturn(s, ok)
    \/ \E t \in tasks : TaskWake(t)
    \/ \E t \in tasks, ok \in BOOLEAN : TaskReturn(t, ok)
    \/ Tick
    \/ \E r \in {"member", "administrator"} : RoleChange(ChatA, 2, r)
    \/ Restart

Spec == Init /\ [][Next]_vars

\* The cooldown scenario: user 1 posts in chat A and user 2 in chat B, one
\* handler at a time and the platform answering at once, while the
\* anonymous admin sets, clears and resets user 1's cooldown in chat A.
CooldownCommands ==
    {<<"reset", <<"1">>>>, <<"setcooldown", <<"1", "0">>>>,
     <<"setcooldown", <<"1", "4">>>>, <<"resetcooldown", <<"1">>>>}
NextCooldown ==
    \/ Messages({1}, {ChatA}, {TOPIC_ID}, {<<1, FALSE>>})
    \/ Messages({1}, {ChatB}, {TOPIC_ID}, {<<2, FALSE>>})
    \/ Commands({1}, {ChatA}, {GROUP_ANONYMOUS_BOT_ID}, CooldownCommands)
    \/ FetchReturn(1, TRUE)
    \/ ReplyReturn(1, TRUE)
    \/ DeleteReturn(1, TRUE)
    \/ SendReturn(1, TRUE)
    \/ \E t \in tasks : TaskWake(t)
    \/ \E t \in tasks : TaskReturn(t, TRUE)
    \/ Quiet /\ Prompt /\ Tick

SpecCooldown == Init /\ [][NextCooldown]_vars

\* The warning scenario: user 1 posts in chat A, two handlers in flight,
\* the clock running while they and the deletion tasks wait for the
\* platform, deletes and sends failing or not.
NextWarn ==
    \/ Messages(Slots, {ChatA}, {TOPIC_ID}, {<<1, FALSE>>})
    \/ \E s \in Slots : FetchReturn(s, TRUE)
    \/ \E s \in Slots, ok \in BOOLEAN : DeleteReturn(s, ok)
    \/ \E s \in Slots, ok \in BOOLEAN : SendReturn(s, ok)
    \/ \E t \in tasks : TaskWake(t)
    \/ \E t \in tasks : TaskReturn(t, TRUE)
    \/ Tick

SpecWarn == Init /\ [][NextWarn]_vars

\* The admin scenario: user 2 (whom the platform promotes and demotes)
\* posts in chat A and creator 3 invokes /reset there, two handlers in
\* flight, the clock running while they wait, lookups failing or not and
\* no warning getting through.
NextAdmin ==
    \/ Messages(Slots, {ChatA}, {TOPIC_ID}, {<<2, FALSE>>})
    \/ Commands(Slots, {ChatA}, {3}, {<<"reset", <<>>>>})
    \/ \E s \in Slots, ok \in BOOLEAN : FetchReturn(s, ok)
    \/ \E s \in Slots : ReplyReturn(s, TRUE)
    \/ \E s \in Slots : DeleteReturn(s, TRUE)
    \/ \E s \in Slots : SendReturn(s, FALSE)
    \/ Tick
    \/ \E r \in {"member", "administrator"} : RoleChange(ChatA, 2, r)

SpecAdmin == Init /\ [][NextAdmin]_vars

\* The custom-admin scenario: member 2 (promoted and demoted by the
\* platform) and creator 3 invoke /addadmin and /removeadmin in chat A,
\* user 2 and anonymous admins post there, one handler at a time, the
\* platform's answers late or failing.
CustomCommands ==
    {<<"addadmin", <<"2">>>>, <<"removeadmin", <<"2">>>>,
     <<"addadmin", <<"1">>>>}
NextCustom ==
    \/ Commands({1}, {ChatA}, {2, 3}, CustomCommands)
    \/ Messages({1}, {ChatA}, {TOPIC_ID},
                {<<2, FALSE>>, <<2, TRUE>>, <<GROUP_ANONYMOUS_BOT_ID, TRUE>>,
                 <<GROUP_ANONYMOUS_BOT_ID, FALSE>>})
    \/ \E ok \in BOOLEAN : MemberReturn(1, ok)
    \/ \E ok \in BOOLEAN : FetchReturn(1, ok)
    \/ ReplyReturn(1, TRUE)
    \/ DeleteReturn(1, TRUE)
    \/ SendReturn(1, TRUE)
    \/ \E t \in tasks : TaskWake(t)
    \/ \E t \in tasks : TaskReturn(t, TRUE)
    \/ Prompt /\ Tick
    \/ \E r \in {"member", "administrator"} : RoleChange(ChatA, 2, r)

SpecCustom == Init /\ [][NextCustom]_vars

\* The command-input scenario: the anonymous admin invokes /reset,
\* /setcooldown and /resetcooldown, and creator 3 /addadmin and
\* /removeadmin, in chat A with well-formed and malformed arguments, while
\* user 1 posts there; one handler at a time, the platform answering.
InputCommands ==
    {<<"reset", <<>>>>, <<"resetcooldown", <<>>>>,
     <<"setcooldown", <<"1">>>>, <<"setcooldown", <<"1", "abc">>>>,
     <<"setcooldown", <<"1", "-1">>>>, <<"setcooldown", <<"abc", "4">>>>,
     <<"setcooldown", <<"1", "0">>>>}
InputRoleCommands ==
    {<<"addadmin", <<>>>>, <<"addadmin", <<"abc">>>>,
     <<"removeadmin", <<>>>>, <<"removeadmin", <<"abc">>>>}
NextInput ==
    \/ Commands({1}, {ChatA}, {GROUP_ANONYMOUS_BOT_ID}, InputCommands)
    \/ Commands({1}, {ChatA}, {3}, InputRoleCommands)
    \/ Messages({1}, {ChatA}, {TOPIC_ID}, {<<1, FALSE>>})
    \/ MemberReturn(1, TRUE)
    \/ FetchReturn(1, TRUE)
    \/ \E ok \in BOOLEAN : ReplyReturn(1, ok)
    \/ DeleteReturn(1, TRUE)
    \/ SendReturn(1, TRUE)
    \/ \E t \in tasks : TaskWake(t)
    \/ \E t \in tasks : TaskReturn(t, TRUE)
    \/ Prompt /\ Tick

SpecInput == Init /\ [][NextInput]_vars

\* The two-chat scenario: user 1 posts in the monitored thread of chat A
\* and of chat B, one handler at a time, the platform answering.
NextCross ==
    \/ Messages({1}, Chats, {TOPIC_ID}, {<<1, FALSE>>})
    \/ FetchReturn(1, TRUE)
    \/ DeleteReturn(1, TRUE)
    \/ SendReturn(1, TRUE)
    \/ \E t \in tasks : TaskWake(t)
    \/ \E t \in tasks : TaskReturn(t, TRUE)
    \/ Prompt /\ Tick

SpecCross == Init /\ [][NextCross]_vars

\* The denial scenario: member 2 invokes each of the ten commands in chat A
\* while user 1 posts there; one handler at a time, the platform's answers
\* late or failing.
DeniedCommands ==
    {<<k, <<>>>> : k \in Listings}
        \cup {<<"reset", <<"1">>>>, <<"setcooldown", <<"1", "0">>>>,
              <<"resetcooldown", <<"1">>>>, <<"addadmin", <<"2">>>>,
              <<"removeadmin", <<"2">>>>}
NextDenied ==
    \/ Commands({1}, {ChatA}, {2}, DeniedCommands)
    \/ Messages({1}, {ChatA}, {TOPIC_ID}, {<<1, FALSE>>})
    \/ \E ok \in BOOLEAN : FetchReturn(1, ok)
    \/ \E ok \in BOOLEAN : MemberReturn(1, ok)
    \/ \E ok \in BOOLEAN : ReplyReturn(1, ok)
    \/ DeleteReturn(1, TRUE)
    \/ SendReturn(1, TRUE)
    \/ \E t \in tasks : TaskWake(t)
    \/ \E t \in tasks : TaskReturn(t, TRUE)
    \/ Prompt /\ Tick

SpecDenied == Init /\ [][NextDenied]_vars

\* The filter scenario: with and without an allow-list, user 1 and an
\* anonymous admin post in both chats, in the monitored thread and in
\* another one; one handler at a time, the platform answering at once.
NextFilter ==
    \/ Messages({1}, Chats, Threads,
                {<<1, FALSE>>, <<GROUP_ANONYMOUS_BOT_ID, TRUE>>})
    \/ FetchReturn(1, TRUE)
    \/ DeleteReturn(1, TRUE)
    \/ SendReturn(1, TRUE)
    \/ \E t \in tasks : TaskWake(t)
    \/ \E t \in tasks : TaskReturn(t, TRUE)
    \/ Quiet /\ Prompt /\ Tick

SpecFilter == InitFilter /\ [][NextFilter]_vars

\* The restart scenario: in chat A the creator makes user 2 a custom
\* admin, user 2 gives user 1 a 4 hour cooldown and user 1 posts, one
\* handler at a time; the process restarts at any point.
RestartCommands == {<<"setcooldown", <<"1", "4">>>>}
NextRestart ==
    \/ Messages({1}, {ChatA}, {TOPIC_ID}, {<<1, FALSE>>})
    \/ Commands({1}, {ChatA}, {2}, RestartCommands)
    \/ Commands({1}, {ChatA}, {3}, {<<"addadmin", <<"2">>>>})
    \/ \E ok \in BOOLEAN : FetchReturn(1, ok)
    \/ MemberReturn(1, TRUE)
    \/ ReplyReturn(1, TRUE)
    \/ DeleteReturn(1, TRUE)
    \/ SendReturn(1, TRUE)
    \/ \E t \in tasks : TaskWake(t)
    \/ \E t \in tasks : TaskReturn(t, TRUE)
    \/ Quiet /\ Prompt /\ Tick
    \/ Restart

SpecRestart == Init /\ [][NextRestart]_vars

\* The status scenario: user 1 posts in chat A while the anonymous admin
\* sets user 1's cooldown there to 4 hours or to none and asks for the
\* status and for today's duplicates, one handler at a time.
StatusCommands ==
    {<<"status", <<>>>>, <<"check_duplicates", <<>>>>,
     <<"setcooldown", <<"1", "4">>>>, <<"setcooldown", <<"1", "0">>>>}
NextStatus ==
    \/ Messages({1}, {ChatA}, {TOPIC_ID}, {<<1, FALSE>>})
    \/ Commands({1}, {ChatA}, {GROUP_ANONYMOUS_BOT_ID}, StatusCommands)
    \/ FetchReturn(1, TRUE)
    \/ ReplyReturn(1, TRUE)
    \/ DeleteReturn(1, TRUE)
    \/ SendReturn(1, TRUE)
    \/ \E t \in tasks : TaskWake(t)
    \/ \E t \in tasks : TaskReturn(t, TRUE)
    \/ Quiet /\ Prompt /\ Tick

SpecStatus == Init /\ [][NextStatus]_vars

\* The store scenario: the load and save functions are called on files
\* that are damaged from outside, the operating system's calls failing or
\* not, each table saved empty or with one of two contents.
SavedValues(t) ==
    CASE t = "records" ->
             {EmptyDict, DictSet(EmptyDict, "1", 0), DictSet(EmptyDict, "2", 1)}
      [] t = "custom_admins" ->
             {EmptyDict, DictSet(EmptyDict, Str(ChatA), {2}),
              DictSet(EmptyDict, Str(ChatB), {1, 2})}
      [] t = "user_cooldowns" ->
             {EmptyDict,
              DictSet(EmptyDict, Str(ChatA), DictSet(EmptyDict, "1", 4)),
              DictSet(EmptyDict, Str(ChatB), DictSet(EmptyDict, "2", 0))}
NextFiles ==
    \/ \E t \in Tables, kind \in FileKinds : Damage(t, kind)
    \/ \E t \in Tables, f \in Faults : LoadTable(t, f)
    \/ \E t \in Tables, f \in Faults :
           \E v \in SavedValues(t) : SaveTable(t, v, f)

SpecFiles == Init /\ [][NextFiles]_vars

\* The deletion-task scenario: user 1 posts in chat A, one handler at a
\* time, warnings and their later deletion failing or not, the clock
\* running whatever the handler and the tasks wait for.  The event loop
\* runs a task whose sleep is over, the platform answers its call, and
\* time passes.
NextTask ==
    \/ Messages({1}, {ChatA}, {TOPIC_ID}, {<<1, FALSE>>})
    \/ FetchReturn(1, TRUE)
    \/ DeleteReturn(1, TRUE)
    \/ \E ok \in BOOLEAN : SendReturn(1, ok)
    \/ \E t \in tasks : TaskWake(t)
    \/ \E t \in tasks, ok \in BOOLEAN : TaskReturn(t, ok)
    \/ Tick
TasksRun ==
    \/ \E t \in tasks : TaskWake(t)
    \/ \E t \in tasks, ok \in BOOLEAN : TaskReturn(t, ok)

SpecTask ==
    Init /\ [][NextTask]_vars /\ WF_vars(Tick) /\ WF_vars(TasksRun)

\* The race scenario: users 1 and 2 post in chat A and the anonymous admin
\* resets user 1, two handlers in flight and interleaved at their awaits.
\* The platform answers within its request timeout, seconds where a tick
\* of the clock is an hour or half an hour: the clock moves between
\* handlers.
NextRace ==
    \/ Messages(Slots, {ChatA}, {TOPIC_ID}, {<<1, FALSE>>, <<2, FALSE>>})
    \/ Commands(Slots, {ChatA}, {GROUP_ANONYMOUS_BOT_ID},
                {<<"reset", <<"1">>>>})
    \/ \E s \in Slots : FetchReturn(s, TRUE)
    \/ \E s \in Slots : ReplyReturn(s, TRUE)
    \/ \E s \in Slots : DeleteReturn(s, TRUE)
    \/ \E s \in Slots : SendReturn(s, TRUE)
    \/ \E t \in tasks : TaskWake(t)
    \/ \E t \in tasks : TaskReturn(t, TRUE)
    \/ Quiet /\ Prompt /\ Tick

SpecRace == Init /\ [][NextRace]_vars

\* ---------------------------------------------------------------- claims
\* A step that evaluated a message of user u in chat c against the cooldown.
Decided(c, u) ==
    /\ evt'.op = "message"
    /\ evt'.chat = c
    /\ evt'.user = u
    /\ evt'.out \in {"admit", "reject"}

\* C1: for every effective cooldown h > 0 and non-exempt user U: once a
\* message of U was admitted in a chat at time t, with no reset and no
\* override change for U since, every message of U evaluated there at a
\* time t' with t < t' < t + h is rejected, and one evaluated at
\* t' >= t + h is admitted.
C1_CooldownWindow ==
    [][\A c \in Chats, u \in Users :
        LET t == hist.admit[c][u]
            hh == Hours(get_user_cooldown_hours(user_cooldowns, c, u))
        IN  (Decided(c, u) /\ t # None /\ hh > 0) =>
               /\ (t < now /\ now < t + hh) => evt'.out = "reject"
               /\ (now >= t + hh) => evt'.out = "admit"]_vars

\* The effective cooldown of user u in chat c per get_user_cooldown_hours.
Override(c, u) == get_user_cooldown_hours(user_cooldowns, c, u)

\* The override table holds a cooldown of 0 hours for user u in chat c.
GreenCard(c, u) ==
    /\ Str(c) \in DOMAIN user_cooldowns
    /\ Str(u) \in DOMAIN user_cooldowns[Str(c)]
    /\ user_cooldowns[Str(c)][Str(u)] = 0

\* C2: while the override of user U in chat C is 0, can_user_send_message
\* allows U with no remaining time whatever record U has, and every message
\* of U evaluated in C is admitted: never rejected, so never deleted or
\* warned about.
C2_GreenCard ==
    \A c \in Chats, u \in Users :
        GreenCard(c, u) =>
            /\ can_user_send_message(u, records, c, user_cooldowns, now)
                   = [ok |-> TRUE, remaining |-> None]
            /\ (evt.op = "message" /\ evt.chat = c /\ evt.user = u
                    /\ evt.out \notin {"ignored", "exempt", "lookup"})
                   => (evt.out = "admit" /\ h[1].pc # "delete")

\* C2's case: a green-card user who already had a record is admitted again.
C2_Witness ==
    /\ GreenCard(ChatA, 1)
    /\ evt.op = "message" /\ evt.chat = ChatA /\ evt.user = 1
    /\ evt.out = "admit" /\ evt.had

\* The records whose age is below their owner's effective cooldown in chat c.
Unexpired(c) ==
    {k \in DOMAIN records :
        \E u \in Accounts :
            /\ Str(u) = k
            /\ now - records[k] < Hours(Override(c, u))}

\* C3: clean_old_records(records, chat_id) returns exactly the records
\* whose age is below their owner's own effective cooldown in that chat,
\* whatever the override table holds when it is called.
C3_CleanPerUser ==
    \A c \in Chats :
        clean_old_records(records, c, user_cooldowns, now)
            = [k \in Unexpired(c) |-> records[k]]

\* C3's case: two equally old records, the one with the longer override kept
\* and the default-cooldown one dropped by the same call.
C3_Witness ==
    /\ {"1", "2"} \subseteq DOMAIN records
    /\ records["1"] = records["2"]
    /\ Override(ChatA, 1) > MESSAGE_COOLDOWN_HOURS
    /\ DOMAIN clean_old_records(records, ChatA, user_cooldowns, now) = {"1"}

\* A step in which a rejecting handler of user u in chat c, its delete
\* attempt returned, consulted the warning throttle.
Throttled(c, u) ==
    /\ evt'.op = "throttle"
    /\ evt'.chat = c
    /\ evt'.user = u

\* C4: for every (chat, user), with a rejection timed when its handler
\* reaches the throttle and a warning counted when send_message is called:
\* a rejection less than WARNING_DELETE_SECONDS + 2 after the last warning
\* sends none, so rejections inside one window share exactly one warning,
\* and a rejection with no warning inside the window sends a new one;
\* handlers interleaved at their awaits included.
C4_WarningThrottle ==
    [][\A c \in Chats, u \in Users :
        Throttled(c, u) =>
            LET k == <<c, u>>
                recent == /\ k \in DOMAIN hist.warn
                          /\ now - hist.warn[k] < WARNING_DELETE_SECONDS + 2
            IN  IF recent
                THEN /\ evt'.out = "suppressed"
                     /\ hist'.warn = hist.warn
                     /\ \A s \in Slots : h[s].pc # "send" => h'[s].pc # "send"
                ELSE /\ evt'.out = "warn"
                     /\ hist'.warn[k] = now
                     /\ \E s \in Slots : h[s].pc = "delete" /\ h'[s].pc = "send"]_vars

\* C4's case: a rejection is left without a warning of its own while the
\* handler of an earlier rejection of the same user is still sending one.
C4_Witness ==
    /\ evt.op = "throttle" /\ evt.out = "suppressed"
    /\ evt.chat = ChatA /\ evt.user = 1
    /\ hist.warn[<<ChatA, 1>>] < now
    /\ \E s \in Slots : h[s].pc = "send" /\ h[s].user = 1

\* C4's other case: a second warning, sent once the window has passed.
C4_SecondWarning ==
    /\ evt.op = "throttle" /\ evt.out = "warn"
    /\ evt.chat = ChatA /\ evt.user = 1
    /\ now >= WARNING_DELETE_SECONDS + 2
    /\ \E t \in tasks : t.user = 1

\* The handlers that call is_admin.
CheckOps == {"message"} \cup AdminGated

\* A step in which is_admin was entered for chat c and answered or went to
\* the platform, before any await.
Checked(c) ==
    /\ evt'.op \in CheckOps
    /\ evt'.chat = c
    /\ evt'.path \in {"anon_chat", "anon_id", "custom", "cache_yes",
                      "cache_no", "live"}

\* A step in which a check of chat c called get_chat_administrators.
LookupIssued(c) == Checked(c) /\ evt'.out = "lookup"

\* The as-stated form of C5: two checks of one chat less than ADMIN_CACHE_TTL
\* apart never issue two live lookups, that is, no lookup is issued less
\* than ADMIN_CACHE_TTL after the previous one of the chat was issued.
C5_NoTwoLookupsWithinTTL ==
    [][\A c \in Chats :
        (LookupIssued(c) /\ hist.lookup[c] # None)
            => now - hist.lookup[c] >= ADMIN_CACHE_TTL]_vars

\* C5 (amended): once a live lookup of a chat has returned the list, no
\* check of that chat made less than ADMIN_CACHE_TTL after the clock
\* reading of the lookup that filled the cache last issues a live lookup;
\* a check of a user who is neither anonymous nor a custom admin is then
\* answered from the cached list.
C5_NoLookupWithinTTLOfFill ==
    [][\A c \in Chats :
        (Checked(c) /\ hist.fill[c] # None
                /\ now - hist.fill[c] < ADMIN_CACHE_TTL) =>
            /\ evt'.out # "lookup"
            /\ evt'.path # "live"
            /\ hist'.lookup = hist.lookup
            /\ \A s \in Slots : h[s].pc # "fetch" => h'[s].pc # "fetch"
            /\ evt'.path \in {"cache_yes", "cache_no"} =>
                   (evt'.path = "cache_yes"
                        <=> evt'.user \in admin_cache[Str(c)].admin_ids)]_vars

\* C5's case: a check made after a lookup of the chat filled the cache, less
\* than ADMIN_CACHE_TTL after it, is answered from the cache.
C5_Witness ==
    /\ evt.op \in CheckOps
    /\ evt.path \in {"cache_yes", "cache_no"}
    /\ hist.fill[evt.chat] # None
    /\ hist.fill[evt.chat] < now
    /\ hist.lookup[evt.chat] = hist.fill[evt.chat]

\* The cache entry of chat c is absent or at least ADMIN_CACHE_TTL old.
Stale(c) ==
    \/ Str(c) \notin DOMAIN admin_cache
    \/ now - admin_cache[Str(c)].timestamp >= ADMIN_CACHE_TTL

\* A step in which the lookup of the check suspended in slot s returned or
\* raised.
LookupReturned(s) == h[s].pc = "fetch" /\ h'[s].pc # "fetch"

\* The answer is_admin gave the handler that finished its check in this step.
AnsweredExempt ==
    IF evt'.op = "message" THEN evt'.out = "exempt" ELSE evt'.out # "denied"

\* A check of a user who is neither anonymous nor a custom admin, made
\* while the cache entry is stale, issues exactly one live lookup, and an
\* entry of age >= ADMIN_CACHE_TTL never answers.
StaleCheckGoesLive ==
    \A c \in Chats :
        /\ (Checked(c) /\ evt'.path \notin {"anon_chat", "anon_id"}
                /\ ~is_custom_admin(custom_admins, c, evt'.user)
                /\ Stale(c)) =>
               /\ evt'.path = "live"
               /\ evt'.out = "lookup"
               /\ \E s \in Slots :
                      /\ h[s].pc = "idle"
                      /\ h'[s].pc = "fetch"
                      /\ h'[s].chat = c
                      /\ h'[s].fnow = now
                      /\ \A r \in Slots \ {s} : h'[r] = h[r]
        /\ (Checked(c) /\ evt'.path \in {"cache_yes", "cache_no"}) =>
               ~Stale(c)

\* The lookup of the check in slot s replaced the cache entry by the
\* fetched list, stamped with the clock the check read, and the check
\* answered by the fetched list.
FilledAndAnswered(s) ==
    LET c == h[s].chat
        fetched == AdminsOf(role, c)
    IN  /\ Str(c) \in DOMAIN admin_cache'
        /\ admin_cache'[Str(c)] =
               [admin_ids |-> fetched, timestamp |-> h[s].fnow]
        /\ AnsweredExempt <=> h[s].user \in fetched

\* The as-stated form of C6: every such check issues exactly one live
\* lookup, replaces the cache entry with the fetched admin set stamped with
\* the time of the check, and answers from the fetched set.
C6_StaleCheckRefillsCache ==
    [][/\ StaleCheckGoesLive
       /\ \A s \in Slots : LookupReturned(s) => FilledAndAnswered(s)]_vars

\* C6 (amended): a check of a user who is neither anonymous nor a custom
\* admin, made while the chat's cache entry is absent or at least
\* ADMIN_CACHE_TTL old, issues exactly one live lookup; when that lookup
\* returns the list, the cache entry is replaced by the fetched admin set
\* stamped with the time the check read before the lookup, and the check
\* answers from the fetched set; an entry of age >= ADMIN_CACHE_TTL never
\* answers.
C6_StaleCheckRefillsOnSuccess ==
    [][/\ StaleCheckGoesLive
       /\ \A s \in Slots :
              (LookupReturned(s) /\ evt'.path = "fetched")
                  => FilledAndAnswered(s)]_vars

\* C6's case: a check made ADMIN_CACHE_TTL or more after the start went to
\* the platform, waited there, and answered from the list it fetched, the
\* cache entry now stamped with the time of the check.
C6_Witness ==
    /\ evt.op \in CheckOps
    /\ evt.path = "fetched"
    /\ hist.lookup[evt.chat] >= ADMIN_CACHE_TTL
    /\ admin_cache[Str(evt.chat)].timestamp = hist.lookup[evt.chat]
    /\ admin_cache[Str(evt.chat)].timestamp < now

\* A step in which handle_message took, in the monitored thread of chat c,
\* a message of account u posted as the chat itself (asChat) or not.
Posted(c, u, asChat) ==
    \E s \in Slots :
        MsgArrive(s, c, TOPIC_ID, u, IF asChat THEN c ELSE None)

\* The step decided the exemption in is_admin's anonymous branches: nothing
\* was fetched, no handler is left waiting, no table or cache changed.
ExemptAsAnonymous ==
    /\ evt'.out = "exempt"
    /\ evt'.path \in {"anon_chat", "anon_id"}
    /\ h' = h
    /\ hist'.lookup = hist.lookup
    /\ UNCHANGED <<records, custom_admins, user_cooldowns, admin_cache,
                   recent_warnings, tasks>>

\* C7: a message whose sender_chat is the chat itself, or whose user id is
\* GROUP_ANONYMOUS_BOT_ID, is exempt whatever the custom-admin table and
\* the admin cache hold, by is_admin's first two branches: the custom-admin
\* branch does not decide it and no live lookup is issued.
C7_AnonymousExemptFirst ==
    [][(evt'.op = "message" /\ evt'.out # "ignored") =>
          \A asChat \in BOOLEAN :
              (Posted(evt'.chat, evt'.user, asChat)
                      /\ (asChat \/ evt'.user = GROUP_ANONYMOUS_BOT_ID))
                  => ExemptAsAnonymous]_vars

\* C7's case: user 2, a custom admin whom an expired cache entry does not
\* list, posted as the chat and was exempted by the sender_chat branch.
C7_Witness ==
    /\ evt.op = "message" /\ evt.user = 2 /\ evt.chat = ChatA
    /\ evt.path = "anon_chat" /\ evt.out = "exempt"
    /\ is_custom_admin(custom_admins, ChatA, 2)
    /\ Str(ChatA) \in DOMAIN admin_cache
    /\ 2 \notin admin_cache[Str(ChatA)].admin_ids
    /\ now - admin_cache[Str(ChatA)].timestamp >= ADMIN_CACHE_TTL

\* C7's other case: the reserved id, cache and custom-admin table empty.
C7_AnonymousIdNoCache ==
    /\ evt.op = "message" /\ evt.user = GROUP_ANONYMOUS_BOT_ID
    /\ evt.path = "anon_id" /\ evt.out = "exempt"
    /\ admin_cache = EmptyDict
    /\ custom_admins = EmptyDict

\* A step in which handle_message decided on a message that user u, a
\* platform administrator of chat c when the message arrived and still one,
\* posted in the monitored thread.
RealAdminDecided(c, u) ==
    /\ evt'.op = "message"
    /\ evt'.chat = c
    /\ evt'.user = u
    /\ evt'.out \in {"exempt", "admit", "reject"}
    /\ u \in AdminsOf(role, c)
    /\ evt'.path \in {"fetched", "failed"} =>
           \E s \in Slots : LookupReturned(s) /\ hist.asadmin[s]

\* The step left the message alone: no record written, no delete started.
NotModerated ==
    /\ evt'.out = "exempt"
    /\ records' = records
    /\ recent_warnings' = recent_warnings
    /\ \A s \in Slots : h'[s].pc \in {"delete", "send"} => h'[s] = h[s]

\* The as-stated form of C8: a message of a real platform administrator in
\* the monitored thread is never deleted, warned about or recorded.
C8_RealAdminNeverModerated ==
    [][\A c \in Chats, u \in Users :
        RealAdminDecided(c, u) => NotModerated]_vars

\* C8 (amended): a message of a real platform administrator in the
\* monitored thread is not deleted, warned about or recorded when is_admin
\* answers from a live lookup that returned the list, from an unexpired
\* cache entry that lists the user, or from the custom-admin table; when
\* the lookup fails, or an unexpired cache entry fetched before the
\* promotion does not list the user, the message is evaluated like a
\* member's.
C8_RealAdminExemptUnlessFailedOrStale ==
    [][\A c \in Chats, u \in Users :
        (RealAdminDecided(c, u) /\ evt'.path \notin {"failed", "cache_no"})
            => NotModerated]_vars

\* C8's case: user 2, an administrator, posted; the lookup returned the
\* list after a wait and the message was left alone, no record written.
C8_Witness ==
    /\ evt.op = "message" /\ evt.user = 2 /\ evt.chat = ChatA
    /\ evt.path = "fetched" /\ evt.out = "exempt"
    /\ 2 \in AdminsOf(role, ChatA)
    /\ "2" \notin DOMAIN records
    /\ admin_cache[Str(ChatA)].timestamp < now

\* A step in which get_chat_member returned or raised for a waiting
\* /addadmin or /removeadmin.
MemberAnswered == \E s \in Slots : h[s].pc = "member" /\ h'[s].pc # "member"

\* C9: the custom-admin table changes only in an /addadmin or /removeadmin
\* step, only in the entry of the command's chat, and only when the
\* platform has just reported the invoker as administrator or creator of
\* that chat; such a command from anybody else, or one whose role query
\* failed, is denied and leaves the table unchanged.
C9_CustomAdminsRoleGated ==
    [][/\ (custom_admins' # custom_admins) =>
              /\ MemberAnswered
              /\ evt'.op \in RoleGated
              /\ evt'.path = "member"
              /\ evt'.out = "done"
              /\ evt'.user \in AdminsOf(role, evt'.chat)
              /\ \A k \in (DOMAIN custom_admins) \ {Str(evt'.chat)} :
                     k \in DOMAIN custom_admins'
                         /\ custom_admins'[k] = custom_admins[k]
              /\ DOMAIN custom_admins' \subseteq
                     DOMAIN custom_admins \cup {Str(evt'.chat)}
       /\ (MemberAnswered
               /\ (evt'.path = "failed"
                       \/ evt'.user \notin AdminsOf(role, evt'.chat))) =>
              /\ evt'.out = "denied"
              /\ custom_admins' = custom_admins]_vars

\* C9's case: user 2, exempt through the custom-admin table but a plain
\* member for the platform, invoked /addadmin and was denied.
C9_Witness ==
    /\ evt.op = "addadmin" /\ evt.user = 2 /\ evt.chat = ChatA
    /\ evt.path = "member" /\ evt.out = "denied"
    /\ is_custom_admin(custom_admins, ChatA, 2)
    /\ ~is_custom_admin(custom_admins, ChatA, 1)

\* C9's other case: the role query of the creator's /addadmin failed.
C9_QueryFailed ==
    /\ evt.op = "addadmin" /\ evt.user = 3
    /\ evt.path = "failed" /\ evt.out = "denied"

\* C10: when get_chat_administrators fails, the admin cache stays as it
\* was and the handler goes on with the answer False: a message is
\* evaluated against the cooldown (admitted and recorded, or rejected and
\* its deletion started) and a gated command is denied (the denial is what
\* it replies), changing no table.
C10_LookupFailureFailsClosed ==
    [][\A s \in Slots :
        (LookupReturned(s) /\ evt'.path = "failed") =>
            LET c == h[s].chat
                u == h[s].user
                recs == clean_old_records(records, c, user_cooldowns, now)
                d == can_user_send_message(u, recs, c, user_cooldowns, now)
            IN  /\ admin_cache' = admin_cache
                /\ h[s].kind = "message" =>
                       /\ evt'.out = (IF d.ok THEN "admit" ELSE "reject")
                       /\ d.ok => /\ h'[s] = Idle
                                  /\ Str(u) \in DOMAIN records'
                                  /\ records'[Str(u)] = now
                       /\ ~d.ok => /\ h'[s].pc = "delete"
                                   /\ records' = records
                /\ h[s].kind \in AdminGated =>
                       /\ evt'.out = "denied"
                       /\ h'[s].pc = "reply" /\ h'[s].out = "denied"
                       /\ UNCHANGED <<records, custom_admins,
                                      user_cooldowns>>]_vars

\* C10's case: the lookup for a message failed while an expired cache entry
\* was there; the entry is still there and the message was evaluated.
C10_Witness ==
    /\ evt.op = "message" /\ evt.path = "failed"
    /\ evt.out \in {"admit", "reject"}
    /\ Str(evt.chat) \in DOMAIN admin_cache
    /\ now - admin_cache[Str(evt.chat)].timestamp >= ADMIN_CACHE_TTL

\* C10's other case: the creator's /reset, its lookup failed, was denied.
C10_CommandDenied ==
    /\ evt.op = "reset" /\ evt.user = 3
    /\ evt.path = "failed" /\ evt.out = "denied"

\* A step in which a command handler of kind `kind`, past its gate, ran on
\* its arguments.
Ran(kind) ==
    /\ evt'.op = kind
    /\ evt'.out \notin {"ignored", "lookup", "query", "denied"}

\* C11: every stored cooldown override is an integer >= 0; a /setcooldown
\* with negative hours is answered with an error and leaves the override
\* table unchanged; and under an override of 0 can_user_send_message allows
\* the user whatever time their record holds, without a remaining time.
C11_OverridesNonNegative ==
    [][/\ \A c \in DOMAIN user_cooldowns' :
              \A k \in DOMAIN user_cooldowns'[c] :
                  user_cooldowns'[c][k] \in Nat
       /\ (Ran("setcooldown") /\ Len(evt'.args) >= 2
               /\ IsInt(evt'.args[2]) /\ IntOf(evt'.args[2]) < 0) =>
              /\ evt'.out = "error"
              /\ user_cooldowns' = user_cooldowns
       /\ \A c \in Chats, u \in Users :
              GreenCard(c, u) =>
                  \A t \in 0..now :
                      can_user_send_message(u, DictSet(records, Str(u), t),
                                            c, user_cooldowns, now)
                          = [ok |-> TRUE, remaining |-> None]]_vars

\* C11's case: a /setcooldown with -1 hours for green-card user 1, who has
\* a record, was answered with an error; the override is still 0.
C11_Witness ==
    /\ evt.op = "setcooldown" /\ evt.args = <<"1", "-1">>
    /\ evt.out = "error"
    /\ GreenCard(ChatA, 1)
    /\ "1" \in DOMAIN records

\* The arguments of a mutating command are malformed: one is missing, the
\* user id is not a number, or the hours are not a number or are negative.
Malformed(kind, args) ==
    \/ args = <<>>
    \/ ~IsInt(args[1])
    \/ kind = "setcooldown" /\ (Len(args) < 2 \/ ~IsInt(args[2])
                                   \/ IntOf(args[2]) < 0)

\* C15: a mutating command (reset, addadmin, removeadmin, setcooldown,
\* resetcooldown) run by a permitted invoker on malformed arguments is
\* answered with a usage or error message and changes none of the three
\* persisted tables.
C15_MalformedArgsRejected ==
    [][\A kind \in {"reset", "addadmin", "removeadmin", "setcooldown",
                    "resetcooldown"} :
        (Ran(kind) /\ Malformed(kind, evt'.args)) =>
            /\ evt'.out \in {"usage", "error"}
            /\ UNCHANGED <<records, custom_admins, user_cooldowns>>]_vars

\* User u has no admitted message in chat c within their cooldown there.
NoneAdmittedWithinCooldown(c, u) ==
    \/ hist.admit[c][u] = None
    \/ now - hist.admit[c][u]
           >= Hours(get_user_cooldown_hours(user_cooldowns, c, u))

\* C12: rate-limit state is per (chat, user): a message of a non-exempt
\* user evaluated in chat B, the user having no admitted message in B
\* within their cooldown, is admitted whatever was admitted from the same
\* user in another chat; and no (chat, user) has more than one record.
C12_PerChatUserState ==
    [][/\ \A c \in Chats, u \in Users :
              (Decided(c, u) /\ NoneAdmittedWithinCooldown(c, u))
                  => evt'.out = "admit"
       /\ \A u \in Users :
              Cardinality({k \in DOMAIN records' : k = Str(u)}) <= 1]_vars

\* A step in which handle_message admitted a message of user u in chat c.
Admitted(c, u) == Decided(c, u) /\ evt'.out = "admit"

\* The chats in which the record of user w was written.
ChatsOfRecord(w) ==
    {c \in Chats : Str(w) \in DOMAIN records
                      /\ hist.admit[c][w] = records[Str(w)]}

\* The record of user w, written in chat c, has not expired under w's
\* effective cooldown there.
UnexpiredIn(c, w) ==
    now - records[Str(w)]
        < Hours(get_user_cooldown_hours(user_cooldowns, c, w))

\* C13: admitting a message of user U in chat C sets U's record to the
\* current time, drops the records expired under their owner's own
\* effective cooldown (in the chat where the record was written; a
\* green-card owner's record may stay or go) and leaves every other user's
\* unexpired record, the custom-admin table and the override table
\* unchanged; nothing is deleted or sent.
C13_AdmitFrame ==
    [][\A c \in Chats, u \in Users :
        Admitted(c, u) =>
            /\ Str(u) \in DOMAIN records'
            /\ records'[Str(u)] = now
            /\ \A w \in Users \ {u} :
                   \A cw \in ChatsOfRecord(w) :
                       IF UnexpiredIn(cw, w)
                       THEN /\ Str(w) \in DOMAIN records'
                            /\ records'[Str(w)] = records[Str(w)]
                       ELSE GreenCard(cw, w)
                                \/ Str(w) \notin DOMAIN records'
            /\ DOMAIN records' \subseteq DOMAIN records \cup {Str(u)}
            /\ UNCHANGED <<custom_admins, user_cooldowns, recent_warnings,
                           tasks>>
            /\ \A s \in Slots : h'[s].pc \notin {"delete", "send"}]_vars

\* A step in which a command handler got its gate's answer, and the answer
\* was no: the invoker is not exempt for is_admin, or is not an
\* administrator or creator for the platform, or the query failed.
GateRefused ==
    /\ evt'.op \in CommandOps
    /\ evt'.out \notin {"ignored", "lookup", "query"}
    /\ \/ evt'.path \in {"cache_no", "failed"}
       \/ /\ evt'.path \in {"fetched", "member"}
          /\ evt'.user \notin AdminsOf(role, evt'.chat)

\* C14: a gated command invoked by a user who does not pass its gate is
\* answered with a denial and has no side effect: the record, custom-admin
\* and override tables and the warning throttle are unchanged, no message
\* is deleted, and no exception leaves the handler.
C14_DenialNoSideEffects ==
    [][/\ GateRefused =>
             /\ evt'.out = "denied"
             /\ UNCHANGED <<records, custom_admins, user_cooldowns,
                            recent_warnings, tasks>>
             /\ \A s \in Slots : h'[s].pc \notin {"delete", "send"}
             /\ \E s \in Slots : h[s].pc # "reply" /\ h'[s].pc = "reply"
       /\ (evt'.op = "reply" /\ evt'.path = "denied") =>
             /\ UNCHANGED <<records, custom_admins, user_cooldowns,
                            recent_warnings, tasks>>
             /\ \A s \in Slots : h'[s].pc \notin {"delete", "send"}
             /\ ~evt'.exc]_vars

\* A step in which handle_message took a message of the event's account
\* in the event's chat, in thread th.
PostedIn(th) ==
    /\ evt'.op = "message"
    /\ \E s \in Slots, asChat \in BOOLEAN :
           MsgArrive(s, evt'.chat, th, evt'.user,
                     IF asChat THEN evt'.chat ELSE None)

\* The chat is outside a non-empty allow-list.
OutsideAllowList(c) == ALLOWED_GROUPS # {} /\ c \notin ALLOWED_GROUPS

\* C16: a message from a chat outside a non-empty allow-list, or in a
\* thread other than the monitored one, is ignored: no exemption check, no
\* lookup, no handler left waiting, no table, cache or throttle change, no
\* delete and no send; a message in the monitored thread of a chat inside
\* the allow-list, or of any chat when the allow-list is empty, is not.
C16_IgnoredNoAction ==
    [][\A th \in Threads :
        PostedIn(th) =>
            IF OutsideAllowList(evt'.chat) \/ th # TOPIC_ID
            THEN /\ evt'.out = "ignored"
                 /\ hist' = hist
                 /\ UNCHANGED <<records, custom_admins, user_cooldowns,
                                admin_cache, recent_warnings, h, tasks>>
            ELSE evt'.out # "ignored"]_vars

\* C16's case: with chat A alone allowed, a message of user 1 in the
\* monitored thread of chat B was ignored, user 1 having a record.
C16_Witness ==
    /\ ALLOWED_GROUPS = {ChatA}
    /\ evt.op = "message" /\ evt.out = "ignored" /\ evt.path = "chat"
    /\ evt.chat = ChatB /\ evt.user = 1
    /\ "1" \in DOMAIN records

\* C16's other case: no allow-list, a message in another thread ignored.
C16_OtherThread ==
    /\ ALLOWED_GROUPS = {}
    /\ evt.op = "message" /\ evt.out = "ignored" /\ evt.path = "thread"
    /\ evt.chat = ChatB

\* A warning was sent to (c, u) less than WARNING_DELETE_SECONDS + 2 ago.
WarnedRecently(c, u) ==
    /\ <<c, u>> \in DOMAIN recent_warnings
    /\ now - recent_warnings[<<c, u>>] < WARNING_DELETE_SECONDS + 2

\* C17: a rejected message gets its delete attempt at once, and exactly
\* one; a warning is sent only by a handler whose delete attempt has
\* ended; and when the attempt ends, failed or not, the handler goes on to
\* the same warning decision and the same send.
C17_DeleteFailureSwallowed ==
    [][/\ (evt'.op = "message" /\ evt'.out = "reject") =>
              \E s \in Slots : h[s].pc # "delete" /\ h'[s].pc = "delete"
       /\ \A s \in Slots :
              /\ (h[s].pc # "send" /\ h'[s].pc = "send")
                     => h[s].pc = "delete"
              /\ (h[s].pc = "send" /\ h'[s].pc # "send")
                     => h'[s].pc = "idle"
              /\ (h[s].pc = "delete" /\ h'[s].pc # "delete") =>
                     /\ evt'.op = "throttle"
                     /\ IF WarnedRecently(h[s].chat, h[s].user)
                        THEN /\ evt'.out = "suppressed"
                             /\ h'[s] = Idle
                             /\ recent_warnings' = recent_warnings
                        ELSE /\ evt'.out = "warn"
                             /\ h'[s] = [pc |-> "send", chat |-> h[s].chat,
                                         user |-> h[s].user,
                                         rem |-> h[s].rem]
                             /\ recent_warnings' =
                                    DictSet(recent_warnings,
                                            <<h[s].chat, h[s].user>>, now)]_vars

\* C17's case: the delete of a rejected message failed and its handler is
\* now sending the warning.
C17_Witness ==
    /\ evt.op = "throttle" /\ evt.path = "failed" /\ evt.out = "warn"
    /\ \E s \in Slots : h[s].pc = "send" /\ h[s].user = evt.user

\* C18: a restart empties the admin cache and the warning throttle and
\* leaves the three tables as they were; a message of a non-exempt user
\* evaluated within the user's cooldown (default or override) after an
\* admission is rejected, a restart in between or not; and a command of a
\* stored custom admin passes the admin gate.
C18_RestartKeepsDecisions ==
    [][/\ evt'.op = "restart" =>
              /\ UNCHANGED <<records, custom_admins, user_cooldowns>>
              /\ admin_cache' = EmptyDict
              /\ recent_warnings' = EmptyDict
       /\ \A c \in Chats, u \in Users :
              LET t == hist.admit[c][u]
                  hh == Hours(get_user_cooldown_hours(user_cooldowns, c, u))
              IN  (Decided(c, u) /\ t # None /\ t < now /\ now < t + hh)
                      => evt'.out = "reject"
       /\ (evt'.op = "setcooldown" /\ evt'.out \notin {"ignored", "lookup"}
               /\ is_custom_admin(custom_admins, evt'.chat, evt'.user))
              => (evt'.path = "custom" /\ evt'.out = "done")]_vars

\* C18's case: user 1, admitted before the last restart under the override
\* stored by custom admin 2, is rejected after it once the default
\* cooldown has passed.
C18_Witness ==
    /\ evt.op = "message" /\ evt.out = "reject" /\ evt.user = 1
    /\ hist.boot # None
    /\ hist.admit[ChatA][1] # None
    /\ hist.admit[ChatA][1] < hist.boot
    /\ now - hist.admit[ChatA][1] >= MESSAGE_COOLDOWN_HOURS * TicksPerHour
    /\ is_custom_admin(custom_admins, ChatA, 2)

\* A stored custom admin passes the gate after a restart, the admin cache
\* still empty.
C18_CustomAdminAfterRestart ==
    /\ evt.op = "setcooldown" /\ evt.out = "done" /\ evt.user = 2
    /\ evt.path = "custom"
    /\ hist.boot # None
    /\ admin_cache = EmptyDict

\* The keys of the records that are active in chat c: their age is below
\* the cooldown that applies to their owner there, the override if there
\* is one, else the default.
ActiveKeys(c) ==
    {k \in DOMAIN records :
        now - records[k]
            < Hours(DictGet(DictGet(user_cooldowns, Str(c), EmptyDict), k,
                            MESSAGE_COOLDOWN_HOURS))}

\* C19: the status command of an exempt user lists exactly the active
\* records: those whose age is below the applicable cooldown of their
\* owner (override if present, else default).
C19_StatusListsActive ==
    [][Ran("status") => evt'.shown = ActiveKeys(evt'.chat)]_vars

\* The status reply leaves out user 1, who holds a 4 hour override and was
\* admitted 2 hours ago.
C19_RateLimitedNotListed ==
    /\ evt.op = "status" /\ evt.out = "empty"
    /\ GreenCard(ChatA, 1) = FALSE
    /\ Override(ChatA, 1) = 4
    /\ "1" \in DOMAIN records
    /\ now - records["1"] = 2 * TicksPerHour

\* The record of user u was reset and no message of u was evaluated since.
ResetPending(u) == Str(u) \in hist.reset

\* C20: /reset <user_id> past its gate leaves the target without a record,
\* every other record and the other two tables as they were, and the
\* record table too when the target had no record; and the first message
\* of the target evaluated after a reset that removed a record is admitted.
C20_ResetClearsTarget ==
    [][/\ (Ran("reset") /\ evt'.args # <<>>) =>
              LET k == evt'.args[1]
              IN  /\ k \notin DOMAIN records'
                  /\ records' = DictDel(records, k)
                  /\ UNCHANGED <<custom_admins, user_cooldowns>>
                  /\ evt'.out = IF k \in DOMAIN records
                                THEN "done" ELSE "noop"
                  /\ k \notin DOMAIN records => records' = records
       /\ \A c \in Chats, u \in Users :
              (Decided(c, u) /\ ResetPending(u)) => evt'.out = "admit"]_vars

\* C20's case: user 1, rejected and warned at this very time, then reset,
\* posts again and is admitted, while user 2 keeps a record.
C20_Witness ==
    /\ evt.op = "message" /\ evt.out = "admit" /\ evt.user = 1
    /\ evt.had = FALSE
    /\ evt.since
    /\ <<ChatA, 1>> \in DOMAIN hist.warn
    /\ hist.warn[<<ChatA, 1>>] = now
    /\ "2" \in DOMAIN records
    /\ "2" \in DOMAIN records

\* A reset whose target has no record changes nothing.
C20_ResetWithoutRecord ==
    /\ evt.op = "reset" /\ evt.out = "noop" /\ evt.args = <<"1">>
    /\ records # EmptyDict

\* C21: a load of a table whose file is absent, a directory or corrupt
\* returns an empty mapping and does not raise, a missing file or a
\* directory being replaced by a file holding {}; and no load and no save
\* of one table, failed or not, changes the content or the file of another
\* table.
C21_LoadToleratesDamage ==
    [][\A t \in Tables :
          /\ (evt'.op = "load" /\ evt'.path = t /\ disk[t] # "object") =>
                 /\ ~evt'.exc
                 /\ evt'.out \in {"loaded", "empty"}
                 /\ evt'.shown = {}
                 /\ disk[t] \in {"absent", "dir"} => disk'[t] = "object"
          /\ (evt'.op \in {"load", "save"} /\ evt'.path = t) =>
                 \A o \in Tables \ {t} :
                     /\ disk'[o] = disk[o]
                     /\ TableOf(o)' = TableOf(o)]_vars

\* A load of a file that is not UTF-8 raised, the other two tables
\* holding their entries.
C21_BinaryFileRaises ==
    /\ evt.op = "load" /\ evt.path = "records" /\ evt.exc
    /\ disk["records"] = "binary"
    /\ custom_admins # EmptyDict
    /\ user_cooldowns # EmptyDict

\* The deletion tasks the scenario can schedule within the clock's range,
\* at most MaxPending of them waiting at once.
TaskRange ==
    [chat : {ChatA}, user : {1}, msg : 1..MaxPending, due : 1..MaxTime,
     pc : {"sleep", "delete"}]

\* C22: a send_message that returned adds exactly one deletion task, due
\* WARNING_DELETE_SECONDS later, and one that raised adds none; in that
\* very step the handler ends, and while a task is pending a free handler
\* takes the next message; a task calls delete_message once, not before
\* it is due, and the answer, failed or not, ends that task; neither step
\* changes anything else; and every scheduled task gets its deletion
\* attempted and ends.
C22_DeletionTask ==
    /\ [][/\ evt'.op = "send" =>
                 \E s \in Slots :
                     /\ h[s].pc = "send" /\ h'[s] = Idle
                     /\ LET t == [chat |-> h[s].chat, user |-> h[s].user,
                                  msg |-> MessageId(tasks),
                                  due |-> now + WARNING_DELETE_SECONDS,
                                  pc |-> "sleep"]
                        IN  IF evt'.path = "sent"
                            THEN /\ \A o \in tasks : o.msg # t.msg
                                 /\ tasks' = tasks \cup {t}
                            ELSE tasks' = tasks
          /\ evt'.op = "wake" =>
                 /\ \E t \in tasks :
                        /\ t.pc = "sleep" /\ now >= t.due
                        /\ tasks' = (tasks \ {t})
                                        \cup {[t EXCEPT !.pc = "delete"]}
                 /\ UNCHANGED <<records, custom_admins, user_cooldowns,
                                admin_cache, recent_warnings, h, hist, now>>
          /\ evt'.op = "task" =>
                 /\ \E t \in tasks :
                        /\ t.pc = "delete" /\ now >= t.due
                        /\ tasks' = tasks \ {t}
                 /\ UNCHANGED <<records, custom_admins, user_cooldowns,
                                admin_cache, recent_warnings, h, hist, now>>
          /\ evt'.op \notin {"send", "wake", "task"} => tasks' = tasks]_vars
    /\ []((tasks # {} /\ h[1].pc = "idle")
             => ENABLED Messages({1}, {ChatA}, {TOPIC_ID}, {<<1, FALSE>>}))
    /\ [](\A t \in tasks : t.due <= MaxTime => t \in TaskRange)
    /\ \A t \in TaskRange :
           (t \in tasks /\ t.pc = "sleep")
               ~> (/\ evt.op = "task"
                   /\ evt.chat = t.chat /\ evt.user = t.user
                   /\ now >= t.due
                   /\ \A o \in tasks : o.msg # t.msg \/ o.due # t.due)

\* C22's case: the deletion of a warning was called when the warning was
\* due and failed after the clock had moved on, and the handlers and the
\* tables are as they were.
C22_Witness ==
    /\ evt.op = "task" /\ evt.path = "failed"
    /\ <<ChatA, 1>> \in DOMAIN hist.warn
    /\ now > hist.warn[<<ChatA, 1>>] + WARNING_DELETE_SECONDS
    /\ tasks = {}
    /\ "1" \in DOMAIN records

\* A message was evaluated while a deletion task, past its time, waited
\* for the platform's answer.
C22_HandledMeanwhile ==
    /\ evt.op = "message" /\ evt.out = "reject"
    /\ \E t \in tasks : t.pc = "delete" /\ now > t.due

\* C23: handle_message decides on the record table as it is at that
\* moment and saves it in the same step, and so does reset.  A message
\* evaluated after another message of the same non-exempt user was
\* admitted while it waited is rejected when the user's cooldown is not 0;
\* an admission keeps every unexpired record the table holds at that
\* moment, the ones written by other handlers meanwhile included; and a
\* reset removes its target from the table as it is at that moment.
C23_NoLostUpdate ==
    [][/\ \A c \in Chats, u \in Users :
              (Decided(c, u) /\ evt'.late /\ Override(c, u) > 0)
                  => evt'.out = "reject"
       /\ \A c \in Chats, u \in Users :
              Admitted(c, u) =>
                  /\ Str(u) \in DOMAIN records'
                  /\ records'[Str(u)] = now
                  /\ \A w \in Users \ {u} :
                         (Str(w) \in DOMAIN records /\ UnexpiredIn(c, w))
                             => /\ Str(w) \in DOMAIN records'
                                /\ records'[Str(w)] = records[Str(w)]
       /\ (evt'.op = "reset" /\ evt'.out = "done")
              => records' = DictDel(records, evt'.args[1])]_vars

\* C23's case: two messages of user 1 were in flight at once, one was
\* admitted and the other, evaluated after it, is rejected; user 2's
\* record, written meanwhile, is kept.
C23_Witness ==
    /\ evt.op = "message" /\ evt.out = "reject" /\ evt.user = 1
    /\ evt.late
    /\ records["1"] = now
    /\ "2" \in DOMAIN records

\* What the cooldown rule makes of U's own state: U's last admitted time t
\* in the chat, U's effective cooldown hh there, and the time of the check.
OwnDecision(t, hh, at) ==
    IF hh = 0 \/ at - t >= Hours(hh) THEN "admit" ELSE "reject"

\* C24: the decision on a message of a non-exempt user U in chat C is a
\* function of U's last admitted time in C (no reset and no override change
\* of U since), U's effective cooldown in C and the time of the check,
\* whatever other users sent in between, in C or in another chat.
C24_DecisionOwnStateOnly ==
    [][\A c \in Chats, u \in Users :
          (Decided(c, u) /\ hist.admit[c][u] # None) =>
              evt'.out = OwnDecision(hist.admit[c][u], Override(c, u), now)]_vars

\* The second run: with the same last admitted time (0), cooldown (4 hours)
\* and time of the check (2 hours), and no message of user 2, user 1 is
\* rejected.
C24_SameStateRejected ==
    /\ evt.op = "message" /\ evt.out = "reject" /\ evt.user = 1
    /\ evt.chat = ChatA
    /\ hist.admit[ChatA][1] = 0
    /\ Override(ChatA, 1) = 4
    /\ now = 2 * TicksPerHour
    /\ hist.admit[ChatB][2] = None

\* C25: the step that rejects a message changes none of the three tables,
\* and neither do the delete, the warning and its later deletion; the
\* sender's record still holds the time of the last admitted message, and
\* the remaining time handed to the warning is that time plus the cooldown
\* minus the time of the check, so with the clock it only goes down.
C25_RejectionFrame ==
    [][/\ (evt'.op = "message" /\ evt'.out = "reject") =>
              LET c == evt'.chat
                  u == evt'.user
              IN  /\ UNCHANGED <<records, custom_admins, user_cooldowns>>
                  /\ hist.admit[c][u] # None
                  /\ Str(u) \in DOMAIN records
                  /\ records[Str(u)] = hist.admit[c][u]
                  /\ \E s \in Slots :
                         /\ h[s].pc # "delete" /\ h'[s].pc = "delete"
                         /\ h'[s].rem > 0
                         /\ h'[s].rem = hist.admit[c][u]
                                           + Hours(Override(c, u)) - now
       /\ evt'.op \in {"throttle", "send", "wake", "task"} =>
              UNCHANGED <<records, custom_admins, user_cooldowns>>
       /\ now' >= now]_vars

\* C25's case: user 1 is rejected a second time since the last admission,
\* later than the first, and the record still holds the admission's time.
C25_Witness ==
    /\ evt.op = "message" /\ evt.out = "reject" /\ evt.user = 1
    /\ <<ChatA, 1>> \in DOMAIN hist.warn
    /\ records["1"] <= hist.warn[<<ChatA, 1>>]
    /\ hist.warn[<<ChatA, 1>>] < now
    /\ records["1"] = hist.admit[ChatA][1]

\* User 1 is rejected while user 2's record has expired: the record is
\* still in the table, the pruned view was not saved.
C25_PrunedViewNotSaved ==
    /\ evt.op = "message" /\ evt.out = "reject" /\ evt.user = 1
    /\ "2" \in DOMAIN records
    /\ now - records["2"] >= Hours(MESSAGE_COOLDOWN_HOURS)

\* C26: in every reachable state check_duplicate_users_today returns the
\* empty list, the record table holding one record per user id, and a
\* /check_duplicates past its gate reports nobody.
C26_NoDuplicatesEver ==
    /\ check_duplicate_users_today(records, now) = {}
    /\ \A u \in Users : Cardinality({k \in DOMAIN records : k = Str(u)}) <= 1
    /\ (evt.op = "check_duplicates"
            /\ evt.out \notin {"ignored", "lookup", "denied"})
           => (evt.out = "empty" /\ evt.shown = {})

\* C26's case: /check_duplicates reports nobody although user 1, recorded
\* today, was rejected and warned today.
C26_Witness ==
    /\ evt.op = "check_duplicates" /\ evt.out = "empty"
    /\ "1" \in DOMAIN records
    /\ DayOf(records["1"]) = DayOf(now)
    /\ <<ChatA, 1>> \in DOMAIN hist.warn
    /\ DayOf(hist.warn[<<ChatA, 1>>]) = DayOf(now)

\* The day has changed since user 1 was recorded.
C26_NextDay ==
    /\ evt.op = "check_duplicates"
    /\ "1" \in DOMAIN records
    /\ DayOf(records["1"]) < DayOf(now)

====
